---- MODULE Spec2Model ----
(***************************************************************************)
(* A model of suji's content pipeline (src/src/main.rs): the eight system  *)
(* sets of run(), the systems in them, the deferred Commands each system   *)
(* queues, and the resources (navbar, post index, sitemap, template        *)
(* catalog) they build.                                                    *)
(*                                                                         *)
(* Strings are sequences of one-character strings, so that replace,        *)
(* split, comparison and Path's extension are computed on characters.      *)
(***************************************************************************)
EXTENDS Integers, Sequences, FiniteSets, TLC

\* ------------------------------------------------------------------------
\* Option<T>: None is the empty tuple, Some(v) the one-element tuple.
None == <<>>

Some(v) == <<v>>

IsSome(o) == o # <<>>

Unwrap(o) == o[1]

\* Result of a call that may panic.
Ok(v) == [ok |-> TRUE, val |-> v]

Panic(m) == [ok |-> FALSE, msg |-> m]

\* ------------------------------------------------------------------------
\* Characters, in ascending byte order (the subset the model uses).
Alphabet ==
  << " ", "-", ".", "/", "0", "1", "2", "3", "4", "5", "6", "7", "8", "9",
     "a", "b", "c", "d", "e", "f", "g", "h", "i", "j", "k", "l", "m", "n",
     "o", "p", "q", "r", "s", "t", "u", "v", "w", "x", "y", "z", "{", "}" >>

Ord(c) == CHOOSE i \in 1..Len(Alphabet) : Alphabet[i] = c

\* str::cmp / String::cmp: lexicographic by byte; -1, 0 or 1.
RECURSIVE StrCmp(_, _)
StrCmp(a, b) ==
  IF a = <<>> /\ b = <<>> THEN 0
  ELSE IF a = <<>> THEN -1
  ELSE IF b = <<>> THEN 1
  ELSE IF Ord(Head(a)) < Ord(Head(b)) THEN -1
  ELSE IF Ord(Head(a)) > Ord(Head(b)) THEN 1
  ELSE StrCmp(Tail(a), Tail(b))

\* str::starts_with
StartsWith(s, p) == Len(p) <= Len(s) /\ SubSeq(s, 1, Len(p)) = p

\* str::contains(char)
ContainsChar(s, c) == \E i \in 1..Len(s) : s[i] = c

\* str::replace(from, to), from non-empty: every non-overlapping match, left to
\* right, the replacement not rescanned.
RECURSIVE StrReplace(_, _, _)
StrReplace(s, from, to) ==
  IF Len(s) < Len(from) THEN s
  ELSE IF StartsWith(s, from)
       THEN to \o StrReplace(SubSeq(s, Len(from) + 1, Len(s)), from, to)
       ELSE <<Head(s)>> \o StrReplace(Tail(s), from, to)

\* str::split(sep): the pieces between the separators, empty ones kept.
RECURSIVE StrSplit(_, _)
StrSplit(s, sep) ==
  IF ~ContainsChar(s, sep) THEN <<s>>
  ELSE LET i == CHOOSE i \in 1..Len(s) :
                  s[i] = sep /\ \A j \in 1..(i - 1) : s[j] # sep
       IN <<SubSeq(s, 1, i - 1)>> \o StrSplit(SubSeq(s, i + 1, Len(s)), sep)

Digits == <<"0", "1", "2", "3", "4", "5", "6", "7", "8", "9">>

\* i64::to_string
RECURSIVE NatToString(_)
NatToString(n) ==
  IF n < 10 THEN <<Digits[n + 1]>>
  ELSE NatToString(n \div 10) \o <<Digits[(n % 10) + 1]>>

IntToString(n) == IF n < 0 THEN <<"-">> \o NatToString(-n) ELSE NatToString(n)

\* format!("{:w}", s) for a string s: padded on the right with spaces to
\* width w, never truncated.
RECURSIVE PadRight(_, _)
PadRight(s, w) == IF Len(s) >= w THEN s ELSE PadRight(s \o <<" ">>, w)

\* format!("{}{}", a, b)
Concat(a, b) == a \o b

\* ------------------------------------------------------------------------
\* std::path on Unix, on character strings.

\* Path::is_absolute / has_root
is_absolute(p) == p # <<>> /\ Head(p) = "/"

\* Path::components without the root: the pieces between separators, empty
\* pieces and "." pieces dropped (a leading "." of a relative path is kept).
RECURSIVE DropNoise(_, _)
DropNoise(pieces, first) ==
  IF pieces = <<>> THEN <<>>
  ELSE LET h == Head(pieces)
           keep == h # <<>> /\ (h # <<".">> \/ first)
       IN (IF keep THEN <<h>> ELSE <<>>) \o DropNoise(Tail(pieces), FALSE)

Components(p) ==
  IF p = <<>> THEN <<>> ELSE DropNoise(StrSplit(p, "/"), ~is_absolute(p))

\* Path equality compares has_root and the components, not the bytes.
PathEq(p, q) == is_absolute(p) = is_absolute(q) /\ Components(p) = Components(q)

\* Path::file_name: the last component, unless it is "..".
file_name(p) ==
  LET cs == Components(p)
  IN IF cs = <<>> \/ cs[Len(cs)] = <<".", ".">> \/ cs[Len(cs)] = <<".">>
     THEN None ELSE Some(cs[Len(cs)])

LastDot(name) == CHOOSE i \in 1..Len(name) :
                   name[i] = "." /\ \A j \in (i + 1)..Len(name) : name[j] # "."

\* rsplit_file_at_dot: <<before, after>> around the last dot.
rsplit_file_at_dot(name) ==
  IF name = <<".", ".">> THEN <<Some(name), None>>
  ELSE IF ~ContainsChar(name, ".") THEN <<None, Some(name)>>
  ELSE LET i == LastDot(name)
       IN IF i = 1 THEN <<Some(name), None>>
          ELSE <<Some(SubSeq(name, 1, i - 1)), Some(SubSeq(name, i + 1, Len(name)))>>

\* Path::extension: before.and(after)
extension(p) ==
  IF ~IsSome(file_name(p)) THEN None
  ELSE LET ba == rsplit_file_at_dot(Unwrap(file_name(p)))
       IN IF IsSome(ba[1]) THEN ba[2] ELSE None

\* Path::file_stem: before.or(after)
file_stem(p) ==
  IF ~IsSome(file_name(p)) THEN None
  ELSE LET ba == rsplit_file_at_dot(Unwrap(file_name(p)))
       IN IF IsSome(ba[1]) THEN ba[1] ELSE ba[2]

\* PathBuf::push
push(p, c) ==
  IF is_absolute(c) THEN c
  ELSE IF p = <<>> \/ p[Len(p)] = "/" THEN p \o c
  ELSE p \o <<"/">> \o c

\* Path::join
join(base, p) == push(base, p)

RECURSIVE TrimLeadingSeparators(_)
TrimLeadingSeparators(p) ==
  IF p # <<>> /\ Head(p) = "/" THEN TrimLeadingSeparators(Tail(p)) ELSE p

\* Path::strip_prefix("/"): Err unless the path has a root.
strip_prefix_root(p) ==
  IF is_absolute(p) THEN Ok(TrimLeadingSeparators(p)) ELSE Panic("Stripping failed!")

RECURSIVE JoinComponents(_)
JoinComponents(cs) ==
  IF cs = <<>> THEN <<>>
  ELSE IF Len(cs) = 1 THEN cs[1]
  ELSE cs[1] \o <<"/">> \o JoinComponents(Tail(cs))

\* Path::parent: the path without its final component; None for "/" and "".
parent(p) ==
  LET cs == Components(p)
  IN IF cs = <<>> THEN None
     ELSE Some((IF is_absolute(p) THEN <<"/">> ELSE <<>>)
               \o JoinComponents(SubSeq(cs, 1, Len(cs) - 1)))

\* fs::create_dir_all: the directory and every ancestor of it.
RECURSIVE Ancestors(_)
Ancestors(dir) ==
  IF ~IsSome(parent(dir)) THEN {dir}
  ELSE {dir} \cup Ancestors(Unwrap(parent(dir)))

\* ------------------------------------------------------------------------
\* serde_json::Value, tagged: t is "str", "int", "bool" or "arr".
\* Each kind keeps its payload in a field of its own: v a string, n an integer,
\* b a boolean, a an array.
Str(s) == [t |-> "str", v |-> s, n |-> 0, b |-> FALSE, a |-> <<>>]

Int64(n) == [t |-> "int", v |-> <<>>, n |-> n, b |-> FALSE, a |-> <<>>]

Bool(b) == [t |-> "bool", v |-> <<>>, n |-> 0, b |-> b, a |-> <<>>]

Arr(a) == [t |-> "arr", v |-> <<>>, n |-> 0, b |-> FALSE, a |-> a]

\* HashMap::insert on a map held as a function.
Insert(map, k, v) == (k :> v) @@ map

\* One pass of the loop body of url_for_impl for one (key, value).
ReplaceKey(url, key, value) ==
  LET to_replace == <<"{">> \o key \o <<"}">>
  IN IF value.t = "int" THEN StrReplace(url, to_replace, IntToString(value.n))
     ELSE IF value.t = "str" THEN StrReplace(url, to_replace, value.v)
     ELSE url

\* The loop of url_for_impl over replacements.iter(). A HashMap iterates in
\* an unspecified order, so the loop is run for every order: runs is a set of
\* <<url, keys not yet visited>>, and the result the set of urls the loop can
\* end with (it ends when no '{' is left or every key was visited).
RECURSIVE ReplaceLoop(_, _)
ReplaceLoop(runs, replacements) ==
  LET live == {r \in runs : r[2] # {} /\ ContainsChar(r[1], "{")}
      ended == {r[1] : r \in runs \ live}
  IN IF live = {} THEN ended
     ELSE ended \cup ReplaceLoop(
            UNION {{<<ReplaceKey(r[1], key, replacements[key]), r[2] \ {key}>> :
                      key \in r[2]} : r \in live},
            replacements)

\* url_for_impl without its assert.
url_for_impl_Unchecked(config, route, replacements) ==
  IF route \notin DOMAIN config.routes
  THEN {Panic("No route defined")}
  ELSE {Ok([url |-> url, absolute |-> Concat(config.site_url, url)]) :
          url \in ReplaceLoop({<<config.routes[route], DOMAIN replacements>>},
                              replacements)}

\* url_for_impl: the set of its possible results, one per iteration order.
url_for_impl(config, route, replacements) ==
  IF route \notin DOMAIN config.routes
  THEN {Panic("No route defined")}
  ELSE {IF ContainsChar(url, "{")
        THEN Panic("URL should be fully generated")
        ELSE Ok([url |-> url, absolute |-> Concat(config.site_url, url)]) :
          url \in ReplaceLoop({<<config.routes[route], DOMAIN replacements>>},
                              replacements)}

metadata_to_url(config, metadata) ==
  url_for_impl(config, metadata.route, metadata.stuff)

\* ------------------------------------------------------------------------
\* Sorting and grouping helpers (slice::sort_by and Itertools).

IntCmp(a, b) == IF a < b THEN -1 ELSE IF a > b THEN 1 ELSE 0

\* Option<String>::cmp: None sorts before Some.
OptStrCmp(a, b) ==
  IF ~IsSome(a) /\ ~IsSome(b) THEN 0
  ELSE IF ~IsSome(a) THEN -1
  ELSE IF ~IsSome(b) THEN 1
  ELSE StrCmp(Unwrap(a), Unwrap(b))

\* slice::sort_by / Itertools::sorted_by, a stable sort: s[i] lands after every
\* element that compares less and every equal element that came before it.
SortBy(s, Cmp(_, _)) ==
  LET rank(i) == 1 + Cardinality({j \in 1..Len(s) :
                      \/ Cmp(s[j], s[i]) < 0
                      \/ Cmp(s[j], s[i]) = 0 /\ j < i})
  IN [k \in 1..Len(s) |-> s[CHOOSE i \in 1..Len(s) : rank(i) = k]]

\* Itertools::chunk_by(|e| e.navbar.group): runs of consecutive elements with
\* the same group, as <<key, run>> pairs.
RECURSIVE ChunkByGroup(_)
ChunkByGroup(s) ==
  IF s = <<>> THEN <<>>
  ELSE LET k == Head(s).navbar.group
           n == CHOOSE n \in 1..Len(s) :
                  /\ \A i \in 1..n : s[i].navbar.group = k
                  /\ (n < Len(s) => s[n + 1].navbar.group # k)
       IN <<<<k, SubSeq(s, 1, n)>>>> \o ChunkByGroup(SubSeq(s, n + 1, Len(s)))

\* A set as a sequence in some fixed order.
RECURSIVE SetToSeq(_)
SetToSeq(S) ==
  IF S = {} THEN <<>>
  ELSE LET x == CHOOSE x \in S : TRUE IN <<x>> \o SetToSeq(S \ {x})

\* Every order in which the elements of S can be iterated.
RECURSIVE Orders(_)
Orders(S) ==
  IF S = {} THEN {<<>>}
  ELSE UNION {{<<x>> \o o : o \in Orders(S \ {x})} : x \in S}

RECURSIVE Flatten(_)
Flatten(ss) == IF ss = <<>> THEN <<>> ELSE Head(ss) \o Flatten(Tail(ss))

Range(s) == {s[i] : i \in 1..Len(s)}

\* ------------------------------------------------------------------------
\* Navbar

NavbarEntry(url, title, children) ==
  [url |-> url, title |-> title, active |-> FALSE, children |-> children]

\* The closure without its check for more than one primary element.
NavbarGroup_AnyPrimaries(key, group) ==
  LET primary == SelectSeq(group, LAMBDA e : e.navbar.is_primary)
      rest == SelectSeq(group, LAMBDA e : ~e.navbar.is_primary)
      sorted == SortBy(rest, LAMBDA a, b : IntCmp(a.navbar.index, b.navbar.index))
      children == [i \in 1..Len(sorted) |->
                     <<sorted[i].navbar.index,
                       NavbarEntry(sorted[i].url, sorted[i].title, <<>>)>>]
  IN IF ~IsSome(key) THEN Ok(children)
     ELSE IF Len(primary) = 0
          THEN Panic("must have at least one primary element for navbar group")
     ELSE LET p == primary[Len(primary)]
          IN Ok(<< <<p.navbar.index,
                     NavbarEntry(p.url, p.title,
                                 [i \in 1..Len(children) |-> children[i][2]])>> >>)

\* The closure given to flat_map in navbar_indexer, for one <<key, group>>
\* chunk: the (index, NavbarEntry) pairs it yields, or the panic.
NavbarGroup(key, group) ==
  LET primary == SelectSeq(group, LAMBDA e : e.navbar.is_primary)
      rest == SelectSeq(group, LAMBDA e : ~e.navbar.is_primary)
      sorted == SortBy(rest, LAMBDA a, b : IntCmp(a.navbar.index, b.navbar.index))
      children == [i \in 1..Len(sorted) |->
                     <<sorted[i].navbar.index,
                       NavbarEntry(sorted[i].url, sorted[i].title, <<>>)>>]
  IN IF ~IsSome(key) THEN Ok(children)
     ELSE IF Len(primary) > 1
          THEN Panic("Expected navbar group to have at most one primary element")
     ELSE IF Len(primary) = 0
          THEN Panic("must have at least one primary element for navbar group")
     ELSE LET p == primary[Len(primary)]
          IN Ok(<< <<p.navbar.index,
                     NavbarEntry(p.url, p.title,
                                 [i \in 1..Len(children) |-> children[i][2]])>> >>)

\* navbar_indexer without the sort of the top-level entries.
navbar_entries_Unsorted(rows) ==
  LET sorted == SortBy(rows, LAMBDA a, b : OptStrCmp(a.navbar.group, b.navbar.group))
      chunks == ChunkByGroup(sorted)
      groups == [i \in 1..Len(chunks) |-> NavbarGroup(chunks[i][1], chunks[i][2])]
  IN IF \E i \in 1..Len(groups) : ~groups[i].ok
     THEN groups[CHOOSE i \in 1..Len(groups) :
                   ~groups[i].ok /\ \A j \in 1..(i - 1) : groups[j].ok]
     ELSE LET flat == Flatten([i \in 1..Len(groups) |-> groups[i].val])
          IN Ok([i \in 1..Len(flat) |-> flat[i][2]])

\* navbar_indexer on the rows of its query that have a navbar directive, each
\* [url, navbar, title], in query order: the Navbar entries, or the panic.
navbar_entries(rows) ==
  LET sorted == SortBy(rows, LAMBDA a, b : OptStrCmp(a.navbar.group, b.navbar.group))
      chunks == ChunkByGroup(sorted)
      groups == [i \in 1..Len(chunks) |-> NavbarGroup(chunks[i][1], chunks[i][2])]
  IN IF \E i \in 1..Len(groups) : ~groups[i].ok
     THEN groups[CHOOSE i \in 1..Len(groups) :
                   ~groups[i].ok /\ \A j \in 1..(i - 1) : groups[j].ok]
     ELSE LET flat == Flatten([i \in 1..Len(groups) |-> groups[i].val])
              top == SortBy(flat, LAMBDA a, b : IntCmp(a[1], b[1]))
          IN Ok([i \in 1..Len(top) |-> top[i][2]])

\* Navbar::for_
Navbar_for(entries, url) ==
  LET is_active(e) == e.url = url \/ (e.url # <<"/">> /\ StartsWith(url, e.url))
  IN [i \in 1..Len(entries) |->
        [entries[i] EXCEPT
           !.active = is_active(entries[i]),
           !.children = [j \in 1..Len(entries[i].children) |->
                           [entries[i].children[j] EXCEPT
                              !.active = is_active(entries[i].children[j])]]]]

\* ------------------------------------------------------------------------
\* BlogpostIndex

K_slug == <<"s", "l", "u", "g">>

K_date == <<"d", "a", "t", "e">>

K_year == <<"y", "e", "a", "r">>

K_month == <<"m", "o", "n", "t", "h">>

K_day == <<"d", "a", "y">>

K_excerpt == <<"e", "x", "c", "e", "r", "p", "t">>

K_tags == <<"t", "a", "g", "s">>

K_tag == <<"t", "a", "g">>

K_featured == <<"f", "e", "a", "t", "u", "r", "e", "d">>

\* metadata.stuff.get(key).unwrap().as_str().unwrap()
get_str(stuff, key) ==
  IF key \in DOMAIN stuff /\ stuff[key].t = "str"
  THEN Ok(stuff[key].v) ELSE Panic("called unwrap on a None value")

\* The tags of a post: the string elements of the `tags` array, or none.
TagsOf(stuff) ==
  IF K_tags \in DOMAIN stuff /\ stuff[K_tags].t = "arr"
  THEN LET strs == SelectSeq(stuff[K_tags].a, LAMBDA e : e.t = "str")
       IN [i \in 1..Len(strs) |-> strs[i].v]
  ELSE <<>>

FeaturedOf(stuff) ==
  IF K_featured \in DOMAIN stuff /\ stuff[K_featured].t = "bool"
  THEN stuff[K_featured].b ELSE FALSE

\* The closure given to map in blogpost_indexer, for one (url, metadata) row.
BlogpostIndexEntry(url, metadata) ==
  LET stuff == metadata.stuff
      required == <<K_slug, K_date, K_year, K_month, K_day>>
  IN IF \E i \in 1..Len(required) : ~get_str(stuff, required[i]).ok
     THEN Panic("called unwrap on a None value")
     ELSE IF K_excerpt \notin DOMAIN stuff
          THEN Panic("No excerpt provided for blogpost")
     ELSE IF stuff[K_excerpt].t # "str"
          THEN Panic("Excerpt is not a string for blogpost")
     ELSE Ok([url |-> url.url,
              slug |-> stuff[K_slug].v,
              title |-> metadata.title,
              excerpt |-> stuff[K_excerpt].v,
              date |-> stuff[K_date].v,
              year |-> stuff[K_year].v,
              month |-> stuff[K_month].v,
              day |-> stuff[K_day].v,
              tags |-> TagsOf(stuff),
              featured |-> FeaturedOf(stuff)])

\* blogpost_indexer on the Blogpost rows of its query, each [url, metadata], in
\* query order: the entries of the BlogpostIndex, or the panic.
blogpost_entries(rows) ==
  LET mapped == [i \in 1..Len(rows) |-> BlogpostIndexEntry(rows[i].url, rows[i].metadata)]
  IN IF \E i \in 1..Len(mapped) : ~mapped[i].ok
     THEN mapped[CHOOSE i \in 1..Len(mapped) :
                   ~mapped[i].ok /\ \A j \in 1..(i - 1) : mapped[j].ok]
     ELSE Ok(SortBy([i \in 1..Len(mapped) |-> mapped[i].val],
                    LAMBDA a, b : StrCmp(b.date, a.date)))

\* BlogpostIndex::featured
featured(entries) == SelectSeq(entries, LAMBDA e : e.featured)

\* BlogpostIndex::recent
recent(entries) == entries

\* The comparator of tags_and_counts: count descending, then name descending.
\* The comparator with ties in ascending order of name.
TagCountCmp_NameAscending(a, b) ==
  IF IntCmp(b[2], a[2]) = 0 THEN StrCmp(a[1], b[1]) ELSE IntCmp(b[2], a[2])

\* The comparator of tags_and_counts: count descending, then name descending.
TagCountCmp(a, b) ==
  IF IntCmp(b[2], a[2]) = 0 THEN StrCmp(b[1], a[1]) ELSE IntCmp(b[2], a[2])

\* BlogpostIndex::tags_and_counts. counts() is a HashMap keyed by tag; its
\* keys are distinct, so the comparator orders any two of its pairs and the
\* order in which the map is iterated does not show in the result.
tags_and_counts(entries) ==
  LET all == Flatten([i \in 1..Len(entries) |-> entries[i].tags])
      counts == [t \in Range(all) |-> Cardinality({i \in 1..Len(all) : all[i] = t})]
      pairs == SetToSeq({<<t, counts[t]>> : t \in DOMAIN counts})
  IN SortBy(pairs, TagCountCmp)

month_names ==
  (<<"0", "1">> :> "January") @@ (<<"0", "2">> :> "February") @@
  (<<"0", "3">> :> "March") @@ (<<"0", "4">> :> "April") @@
  (<<"0", "5">> :> "May") @@ (<<"0", "6">> :> "June") @@
  (<<"0", "7">> :> "July") @@ (<<"0", "8">> :> "August") @@
  (<<"0", "9">> :> "September") @@ (<<"1", "0">> :> "October") @@
  (<<"1", "1">> :> "November") @@ (<<"1", "2">> :> "December")

\* (String, String)::cmp, the key order of the BTreeMap in archives.
YearMonthCmp(a, b) ==
  IF StrCmp(a[1], b[1]) = 0 THEN StrCmp(a[2], b[2]) ELSE StrCmp(a[1], b[1])

\* BlogpostIndex::archives: (year, month name, entries) per (year, month),
\* newest first, or the panic on a month that has no name.
archives(entries) ==
  LET keys == {<<entries[i].year, entries[i].month>> : i \in 1..Len(entries)}
      ascending == SortBy(SetToSeq(keys), YearMonthCmp)
      n == Len(ascending)
      group(k) == SelectSeq(entries, LAMBDA e : <<e.year, e.month>> = k)
  IN IF \E k \in keys : k[2] \notin DOMAIN month_names
     THEN Panic("Invalid month")
     ELSE Ok([i \in 1..n |->
                LET k == ascending[n + 1 - i]
                IN <<k[1], month_names[k[2]], group(k)>>])

\* ------------------------------------------------------------------------
\* The world of one run.

VARIABLES
  main,       \* fn main: its flags, where it stands, the watcher's events
  config,     \* the Config resource, immutable within a run
  disk,       \* the source files the globs find
  world,      \* the entities, in spawn order; an entity is its components
  resources,  \* Navbar, BlogpostIndex, Sitemap and TeraResource, each an Option
  queue,      \* per system, the Commands it queued
  done,       \* the systems that have returned
  applied,    \* the systems whose Commands have been applied to the world
  panicked,   \* Some([system, msg]) once a system has panicked
  dirs,       \* output: the directories created
  outfiles,   \* output: path -> what was last copied or written there
  copied,     \* entities whose copy static_file_copier has made
  written     \* entities whose contents file_contents_writer has written

vars == <<main, config, disk, world, resources, queue, done, applied, panicked,
          dirs, outfiles, copied, written>>

\* An entity with no component.
Blank ==
  [loader |-> None, source_path |-> None, url |-> None, rel_out |-> None,
   abs_out |-> None, copy |-> FALSE, is_static |-> FALSE, exclude |-> FALSE,
   metadata |-> None, contents |-> None, type_ |-> None, write |-> None]

\* Commands: spawn_empty().insert(..)..., entity(e).insert(c), insert_resource(r).
Spawn(e) == [op |-> "spawn", entity |-> 0, field |-> "", value |-> e]

InsertComponent(id, field, value) ==
  [op |-> "insert", entity |-> id, field |-> field, value |-> value]

InsertResource(name, value) ==
  [op |-> "resource", entity |-> 0, field |-> name, value |-> value]

\* The world and resources after the commands cmds, applied in order.
RECURSIVE ApplyCommands(_, _, _)
ApplyCommands(w, r, cmds) ==
  IF cmds = <<>> THEN <<w, r>>
  ELSE LET c == Head(cmds)
       IN IF c.op = "spawn" THEN ApplyCommands(Append(w, c.value), r, Tail(cmds))
          ELSE IF c.op = "insert"
               THEN ApplyCommands([w EXCEPT ![c.entity][c.field] = c.value], r, Tail(cmds))
          ELSE ApplyCommands(w, [r EXCEPT ![c.field] = Some(c.value)], Tail(cmds))

\* ------------------------------------------------------------------------
\* The schedule built by run().

Systems ==
  << "create_source_loaders",
     "static_content_source_loader", "template_source_loader",
     "dynamic_content_source_loader",
     "generate_urls",
     "navbar_indexer", "blogpost_indexer", "sitemap_indexer",
     "tag_page_generator",
     "map_urls_to_relative_paths", "dynamic_content_generator",
     "path_absoluter",
     "output_folder_creator", "static_file_copier", "file_contents_writer" >>

\* .in_set(..)
SetOf ==
  [create_source_loaders |-> "ConfigProcessingStage",
   static_content_source_loader |-> "SourceLoadingStage",
   template_source_loader |-> "SourceLoadingStage",
   dynamic_content_source_loader |-> "SourceLoadingStage",
   generate_urls |-> "AnalyzingDynamicContentStage",
   navbar_indexer |-> "IndexingDynamicContentStage",
   blogpost_indexer |-> "IndexingDynamicContentStage",
   sitemap_indexer |-> "IndexingDynamicContentStage",
   tag_page_generator |-> "SpawningDynamicContentStage",
   map_urls_to_relative_paths |-> "GeneratingDynamicContentStage",
   dynamic_content_generator |-> "GeneratingDynamicContentStage",
   path_absoluter |-> "PreparingForPersistenceStage",
   output_folder_creator |-> "PersistOutputStage",
   static_file_copier |-> "PersistOutputStage",
   file_contents_writer |-> "PersistOutputStage"]

\* configure_sets without PersistOutputStage.after(PreparingForPersistenceStage).
SetAfter_Unordered ==
  { <<"SourceLoadingStage", "ConfigProcessingStage">>,
    <<"AnalyzingDynamicContentStage", "SourceLoadingStage">>,
    <<"IndexingDynamicContentStage", "AnalyzingDynamicContentStage">>,
    <<"SpawningDynamicContentStage", "IndexingDynamicContentStage">>,
    <<"GeneratingDynamicContentStage", "SpawningDynamicContentStage">>,
    <<"PreparingForPersistenceStage", "GeneratingDynamicContentStage">> }

\* configure_sets: <<set, the set it is .after>>
SetAfter ==
  { <<"SourceLoadingStage", "ConfigProcessingStage">>,
    <<"AnalyzingDynamicContentStage", "SourceLoadingStage">>,
    <<"IndexingDynamicContentStage", "AnalyzingDynamicContentStage">>,
    <<"SpawningDynamicContentStage", "IndexingDynamicContentStage">>,
    <<"GeneratingDynamicContentStage", "SpawningDynamicContentStage">>,
    <<"PreparingForPersistenceStage", "GeneratingDynamicContentStage">>,
    <<"PersistOutputStage", "PreparingForPersistenceStage">> }

\* add_systems: <<system, the system it is .after>>
SystemAfter ==
  { <<"static_file_copier", "output_folder_creator">>,
    <<"file_contents_writer", "output_folder_creator">> }

\* The systems that take a Commands parameter.
HasCommands ==
  Range(Systems) \ {"output_folder_creator", "static_file_copier", "file_contents_writer"}

SystemsIn(set) == {s \in Range(Systems) : SetOf[s] = set}

\* The systems the schedule orders directly before sys.
Before(sys) ==
  {t \in Range(Systems) : <<SetOf[sys], SetOf[t]>> \in SetAfter \/ <<sys, t>> \in SystemAfter}

\* sys may start: nothing has panicked, every system ordered before it has
\* returned, and the Commands of those that queue any have been applied (the
\* schedule puts a sync point on every such edge).
Ready(sys) ==
  /\ ~IsSome(panicked)
  /\ sys \notin done
  /\ \A t \in Before(sys) : t \in done /\ (t \in HasCommands => t \in applied)

\* The sync point after a set: it runs once every system of the set has
\* returned and applies their queues, in schedule order.
ApplyDeferred(set) ==
  /\ ~IsSome(panicked)
  /\ SystemsIn(set) # {}
  /\ SystemsIn(set) \subseteq done \cap HasCommands
  /\ ~(SystemsIn(set) \subseteq applied)
  /\ LET order == SelectSeq(Systems, LAMBDA s : SetOf[s] = set)
         cmds == Flatten([i \in 1..Len(order) |-> queue[order[i]]])
         wr == ApplyCommands(world, resources, cmds)
     IN /\ world' = wr[1]
        /\ resources' = wr[2]
  /\ applied' = applied \cup SystemsIn(set)
  /\ UNCHANGED <<main, config, disk, queue, done, panicked, dirs, outfiles, copied, written>>

\* A system returns with the commands it queued, or panics.
Return(sys, result) ==
  IF result.ok
  THEN /\ queue' = [queue EXCEPT ![sys] = result.val]
       /\ done' = done \cup {sys}
       /\ UNCHANGED panicked
  ELSE /\ panicked' = Some([system |-> sys, msg |-> result.msg])
       /\ UNCHANGED <<queue, done>>

\* The ids of the entities a query matches.
Query(P(_)) == {id \in 1..Len(world) : P(world[id])}

\* ------------------------------------------------------------------------
\* ConfigProcessingStage

\* The match of create_source_loaders: the loader component for one source.
LoaderFor(glob, source) ==
  IF source = "StaticContent"
  THEN [kind |-> "LoadStaticContentGlob", glob |-> glob, type_ |-> None]
  ELSE IF source = "Template"
  THEN [kind |-> "LoadTemplateGlob", glob |-> glob, type_ |-> None]
  ELSE [kind |-> "LoadDynamicContentGlob", glob |-> glob,
        type_ |-> Some(CASE source = "DynamicContentSinglePage" -> "SinglePage"
                         [] source = "DynamicContentBlogPost" -> "Blogpost"
                         [] source = "DynamicContentBlogpostTagPage" -> "BlogpostTagPage"
                         [] source = "DynamicContentBlogpostArchivePage" -> "BlogpostArchivePage"
                         [] source = "DynamicContentBlogpostRssPage" -> "BlogpostRssPage"
                         [] source = "DynamicContentSitemap" -> "SitemapPage")]

create_source_loaders ==
  /\ Ready("create_source_loaders")
  /\ LET globs == SetToSeq(DOMAIN config.sources)
     IN Return("create_source_loaders",
               Ok([i \in 1..Len(globs) |->
                     Spawn([Blank EXCEPT
                              !.loader = Some(LoaderFor(globs[i], config.sources[globs[i]]))])]))
  /\ UNCHANGED <<main, config, disk, world, resources, applied, dirs, outfiles, copied, written>>

\* ------------------------------------------------------------------------
\* SourceLoadingStage

\* The globs of the loader entities of one kind.
LoaderGlobs(kind) ==
  LET ids == SetToSeq(Query(LAMBDA e : IsSome(e.loader) /\ Unwrap(e.loader).kind = kind))
  IN [i \in 1..Len(ids) |-> Unwrap(world[ids[i]].loader)]

\* glob::glob(pattern): the files on disk the pattern matches.
Glob(pattern) == SetToSeq({f \in disk : f.glob = pattern})

\* The paths of a loader's query, flat_mapped over its globs.
GlobAll(loaders) ==
  Flatten([i \in 1..Len(loaders) |->
             LET files == Glob(loaders[i].glob)
             IN [j \in 1..Len(files) |-> [file |-> files[j], type_ |-> loaders[i].type_]]])

\* Path::strip_prefix(base), by components.
make_relative(path, base) ==
  IF is_absolute(path)
  THEN LET pc == Components(path)
           bc == Components(base)
       IN IF is_absolute(base) /\ Len(bc) <= Len(pc) /\ SubSeq(pc, 1, Len(bc)) = bc
          THEN Ok(JoinComponents(SubSeq(pc, Len(bc) + 1, Len(pc))))
          ELSE Panic("Static content must be a prefix of base")
  ELSE Ok(path)

\* The first panic of a sequence of results, or Ok of all their values.
Collect(results) ==
  IF \E i \in 1..Len(results) : ~results[i].ok
  THEN results[CHOOSE i \in 1..Len(results) :
                 ~results[i].ok /\ \A j \in 1..(i - 1) : results[j].ok]
  ELSE Ok([i \in 1..Len(results) |-> results[i].val])

\* The body of the loop of static_content_source_loader for one path.
StaticEntity(path) ==
  LET relative == make_relative(path, config.source_dir)
  IN IF ~relative.ok THEN relative
     ELSE Ok(Spawn([Blank EXCEPT
            !.source_path = Some(relative.val),
            !.url = Some([url |-> relative.val,
                          absolute |-> Concat(config.site_url, relative.val)]),
            !.rel_out = Some(relative.val),
            !.copy = TRUE,
            !.is_static = TRUE,
            !.exclude = TRUE]))

static_content_source_loader ==
  /\ Ready("static_content_source_loader")
  /\ LET paths == GlobAll(LoaderGlobs("LoadStaticContentGlob"))
     IN Return("static_content_source_loader",
               Collect([i \in 1..Len(paths) |-> StaticEntity(paths[i].file.path)]))
  /\ UNCHANGED <<main, config, disk, world, resources, applied, dirs, outfiles, copied, written>>

\* Tera::new(glob), then extend with every further glob: the names of the
\* templates found. No resource is inserted when there is no template glob.
template_source_loader ==
  /\ Ready("template_source_loader")
  /\ LET globs == LoaderGlobs("LoadTemplateGlob")
         files == GlobAll(globs)
     IN Return("template_source_loader",
               Ok(IF globs = <<>> THEN <<>>
                  ELSE <<InsertResource("tera",
                           [templates |-> {files[i].file.name : i \in 1..Len(files)},
                            functions |-> {}])>>))
  /\ UNCHANGED <<main, config, disk, world, resources, applied, dirs, outfiles, copied, written>>

\* metadata.template of a blog post, left as the frontmatter gives it.
BlogpostTemplate_Frontmatter(metadata) == metadata.template

\* metadata.template = Some(config.blogpost_template.clone())
BlogpostTemplate(metadata) == Some(config.blogpost_template)

\* The Blogpost arm of the match of dynamic_content_source_loader.
EnrichBlogpost(metadata, relative) ==
  LET stem == file_stem(relative)
      stuff1 == Insert(metadata.stuff, K_slug, Str(Unwrap(stem)))
  IN IF ~IsSome(stem) THEN Panic("Path must have a stem")
     ELSE IF K_date \notin DOMAIN stuff1 THEN Panic("Blogpost is missing a date!")
     ELSE IF stuff1[K_date].t # "str" THEN Panic("Blogpost has a non-string date!")
     ELSE LET parts == StrSplit(stuff1[K_date].v, "/")
          IN IF Len(parts) # 3 THEN Panic("Blogpost has an invalid date!")
             ELSE LET stuff2 == Insert(Insert(Insert(stuff1,
                                   K_year, Str(PadRight(parts[1], 4))),
                                   K_month, Str(PadRight(parts[2], 2))),
                                   K_day, Str(PadRight(parts[3], 2)))
                  IN Ok([metadata EXCEPT
                           !.markdown = TRUE,
                           !.template = BlogpostTemplate(metadata),
                           !.stuff = stuff2,
                           !.og_type = "article",
                           !.og_description =
                              IF K_excerpt \in DOMAIN stuff2
                              THEN (IF stuff2[K_excerpt].t = "str"
                                    THEN stuff2[K_excerpt].v ELSE <<>>)
                              ELSE metadata.og_description])

\* The body of the loop of dynamic_content_source_loader for one (type_, path).
\* A file whose frontmatter does not parse has no metadata.
DynamicEntity(type_, file) ==
  LET relative == make_relative(file.path, config.source_dir)
  IN IF ~relative.ok THEN relative
     ELSE IF ~IsSome(file.metadata) THEN Panic("Could not parse metadata")
     ELSE LET parsed == Unwrap(file.metadata)
              metadata == IF type_ = "Blogpost"
                          THEN EnrichBlogpost(parsed, relative.val)
                          ELSE Ok(parsed)
          IN IF ~metadata.ok THEN metadata
             ELSE Ok(Spawn([Blank EXCEPT
                    !.source_path = Some(relative.val),
                    !.metadata = Some(metadata.val),
                    !.contents = Some(file.contents),
                    !.type_ = Some(type_),
                    !.exclude = parsed.exclude_from_sitemap]))

dynamic_content_source_loader ==
  /\ Ready("dynamic_content_source_loader")
  /\ LET paths == GlobAll(LoaderGlobs("LoadDynamicContentGlob"))
     IN Return("dynamic_content_source_loader",
               Collect([i \in 1..Len(paths) |->
                          DynamicEntity(Unwrap(paths[i].type_), paths[i].file)]))
  /\ UNCHANGED <<main, config, disk, world, resources, applied, dirs, outfiles, copied, written>>

\* ------------------------------------------------------------------------
\* AnalyzingDynamicContentStage

\* generate_urls with no kind of record passed over.
SkipsUrl_Never(type_) == FALSE

\* if *type_ == DynamicContentType::BlogpostTagPage { continue; }
SkipsUrl(type_) == type_ = "BlogpostTagPage"

\* generate_urls over the rows ids of its query: every result it can have, as
\* url_for_impl has one result per iteration order of a record's HashMap.
RECURSIVE GenerateUrls(_)
GenerateUrls(ids) ==
  IF ids = <<>> THEN {Ok(<<>>)}
  ELSE LET id == Head(ids)
           rest == GenerateUrls(Tail(ids))
       IN IF SkipsUrl(Unwrap(world[id].type_)) THEN rest
          ELSE {IF ~u.ok THEN u
                ELSE IF ~r.ok THEN r
                ELSE Ok(<<InsertComponent(id, "url", Some(u.val))>> \o r.val) :
                  u \in metadata_to_url(config, Unwrap(world[id].metadata)), r \in rest}

generate_urls ==
  /\ Ready("generate_urls")
  /\ \E result \in GenerateUrls(SetToSeq(Query(LAMBDA e : IsSome(e.type_) /\ IsSome(e.metadata)))) :
       Return("generate_urls", result)
  /\ UNCHANGED <<main, config, disk, world, resources, applied, dirs, outfiles, copied, written>>

\* ------------------------------------------------------------------------
\* IndexingDynamicContentStage

\* A query hands its rows over in an order the program does not control (it
\* follows the spawn order of the loaders, which follows the iteration of the
\* HashMap config.sources), so the indexers are run for every order.
navbar_indexer ==
  /\ Ready("navbar_indexer")
  /\ \E order \in Orders(Query(LAMBDA e : /\ IsSome(e.url) /\ IsSome(e.metadata)
                                          /\ IsSome(Unwrap(e.metadata).navbar))) :
       LET rows == [i \in 1..Len(order) |->
                      [url |-> Unwrap(world[order[i]].url).url,
                       navbar |-> Unwrap(Unwrap(world[order[i]].metadata).navbar),
                       title |-> Unwrap(world[order[i]].metadata).title]]
           entries == navbar_entries(rows)
       IN Return("navbar_indexer",
                 IF entries.ok THEN Ok(<<InsertResource("navbar", entries.val)>>)
                 ELSE entries)
  /\ UNCHANGED <<main, config, disk, world, resources, applied, dirs, outfiles, copied, written>>

blogpost_indexer ==
  /\ Ready("blogpost_indexer")
  /\ \E order \in Orders(Query(LAMBDA e : /\ IsSome(e.type_) /\ IsSome(e.url)
                                          /\ IsSome(e.metadata)
                                          /\ Unwrap(e.type_) = "Blogpost")) :
       LET rows == [i \in 1..Len(order) |->
                      [url |-> Unwrap(world[order[i]].url),
                       metadata |-> Unwrap(world[order[i]].metadata)]]
           entries == blogpost_entries(rows)
       IN Return("blogpost_indexer",
                 IF entries.ok THEN Ok(<<InsertResource("blogindex", entries.val)>>)
                 ELSE entries)
  /\ UNCHANGED <<main, config, disk, world, resources, applied, dirs, outfiles, copied, written>>

\* sitemap_indexer: the urls of the entities Without<ExcludeFromSitemap>,
\* collected into a BTreeSet and read back in its (ascending) order.
sitemap_entries(urls) == SortBy(SetToSeq(urls), StrCmp)

sitemap_indexer ==
  /\ Ready("sitemap_indexer")
  /\ LET ids == Query(LAMBDA e : IsSome(e.url) /\ ~e.exclude)
     IN Return("sitemap_indexer",
               Ok(<<InsertResource("sitemap",
                      sitemap_entries({Unwrap(world[id].url).url : id \in ids}))>>))
  /\ UNCHANGED <<main, config, disk, world, resources, applied, dirs, outfiles, copied, written>>

\* ------------------------------------------------------------------------
\* SpawningDynamicContentStage

\* The record spawned with the template's own metadata instead of the clone's.
TagPage_TemplateMetadata(e, metadata, url) ==
  [Blank EXCEPT
     !.source_path = e.source_path,
     !.metadata = e.metadata,
     !.contents = e.contents,
     !.type_ = e.type_,
     !.url = Some(url)]

\* The record tag_page_generator spawns for a template entity and a tag.
TagPage(e, metadata, url) ==
  [Blank EXCEPT
     !.source_path = e.source_path,
     !.metadata = Some(metadata),
     !.contents = e.contents,
     !.type_ = e.type_,
     !.url = Some(url)]

\* The loops of tag_page_generator over the (template entity, tag) pairs left,
\* with the sitemap entries and the commands so far: every outcome they can
\* have. The sitemap is sorted after the loops; a panic leaves it as it is.
RECURSIVE Expand(_, _, _)
Expand(pairs, entries, cmds) ==
  IF pairs = <<>>
  THEN {[ok |-> TRUE, msg |-> "", entries |-> SortBy(entries, StrCmp), cmds |-> cmds]}
  ELSE LET e == world[Head(pairs)[1]]
           metadata == [Unwrap(e.metadata) EXCEPT
                          !.stuff = Insert(@, K_tag, Str(Head(pairs)[2]))]
       IN UNION {IF ~u.ok
                 THEN {[ok |-> FALSE, msg |-> u.msg, entries |-> entries, cmds |-> <<>>]}
                 ELSE Expand(Tail(pairs), Append(entries, u.val.url),
                             Append(cmds, Spawn(TagPage(e, metadata, u.val)))) :
                   u \in metadata_to_url(config, metadata)}

\* The (template entity, tag) pairs, in the order of the two loops.
TagPairs(ids, tags) ==
  Flatten([i \in 1..Len(ids) |-> [j \in 1..Len(tags) |-> <<ids[i], tags[j]>>]])

tag_page_generator ==
  /\ Ready("tag_page_generator")
  /\ IF ~IsSome(resources.blogindex) \/ ~IsSome(resources.sitemap)
     THEN /\ Return("tag_page_generator", Panic("Resource requested does not exist"))
          /\ UNCHANGED resources
     ELSE LET counts == tags_and_counts(Unwrap(resources.blogindex))
              tags == [i \in 1..Len(counts) |-> counts[i][1]]
              ids == SetToSeq(Query(LAMBDA e :
                        /\ IsSome(e.type_) /\ IsSome(e.metadata)
                        /\ IsSome(e.source_path) /\ IsSome(e.contents)
                        /\ Unwrap(e.type_) = "BlogpostTagPage"))
          IN \E out \in Expand(TagPairs(ids, tags), Unwrap(resources.sitemap), <<>>) :
               /\ resources' = [resources EXCEPT !.sitemap = Some(out.entries)]
               /\ Return("tag_page_generator",
                         IF out.ok THEN Ok(out.cmds) ELSE Panic(out.msg))
  /\ UNCHANGED <<main, config, disk, world, applied, dirs, outfiles, copied, written>>

\* ------------------------------------------------------------------------
\* GeneratingDynamicContentStage

\* The body of the loop with index.html pushed whatever the extension.
RelativeOutputPath_AlwaysIndex(url) ==
  push(url, <<"i", "n", "d", "e", "x", ".", "h", "t", "m", "l">>)

\* The body of the loop of map_urls_to_relative_paths for one url.
RelativeOutputPath(url) ==
  IF ~IsSome(extension(url)) THEN push(url, <<"i", "n", "d", "e", "x", ".", "h", "t", "m", "l">>)
  ELSE url

map_urls_to_relative_paths ==
  /\ Ready("map_urls_to_relative_paths")
  /\ LET ids == SetToSeq(Query(LAMBDA e : IsSome(e.url) /\ ~IsSome(e.rel_out)))
     IN Return("map_urls_to_relative_paths",
               Ok([i \in 1..Len(ids) |->
                     InsertComponent(ids[i], "rel_out",
                       Some(RelativeOutputPath(Unwrap(world[ids[i]].url).url)))]))
  /\ UNCHANGED <<main, config, disk, world, resources, applied, dirs, outfiles, copied, written>>

\* The functions dynamic_content_generator registers with Tera.
RegisteredFunctions ==
  {"blogposts_featured", "blogposts_recent", "blogposts_tagged", "blogposts_all", "url_for"}

\* The body of the loop of dynamic_content_generator for one entity: what is
\* rendered, as the template chosen and the context handed to it, or the panic.
Render(e, tera, navbar, tags_counts, blog_archives, sitemap) ==
  LET url == Unwrap(e.url)
      metadata == Unwrap(e.metadata)
      context ==
        [sitename |-> config.sitename,
         title |-> metadata.title,
         stuff |-> metadata.stuff,
         navbar |-> Navbar_for(navbar, url.url),
         content |-> IF metadata.markdown THEN Some(Unwrap(e.contents)) ELSE None,
         blog_tags_and_counts |-> tags_counts,
         blog_archives |-> blog_archives,
         sitemap |-> sitemap,
         url_for_this |-> url.url,
         og_url |-> url.absolute,
         og_type |-> metadata.og_type,
         og_title |-> IF metadata.og_title # <<>> THEN metadata.og_title ELSE metadata.title,
         og_description |-> metadata.og_description]
  IN IF IsSome(metadata.template)
     THEN IF Unwrap(e.type_) = "Blogpost"
          THEN IF Unwrap(metadata.template) # config.blogpost_template
               THEN Panic("assertion failed: template_name == config.blogpost_template")
               ELSE Ok([via |-> "blogpost_template", template |-> metadata.template,
                        context |-> context])
          ELSE IF Unwrap(metadata.template) \notin tera.templates
               THEN Panic("Error generating source")
               ELSE Ok([via |-> "template", template |-> metadata.template,
                        context |-> context])
     ELSE Ok([via |-> "contents", template |-> None, context |-> context])

dynamic_content_generator ==
  /\ Ready("dynamic_content_generator")
  /\ IF \E r \in {"navbar", "blogindex", "sitemap", "tera"} : ~IsSome(resources[r])
     THEN /\ Return("dynamic_content_generator", Panic("Resource requested does not exist"))
          /\ UNCHANGED resources
     ELSE LET tera == [Unwrap(resources.tera) EXCEPT !.functions = @ \cup RegisteredFunctions]
              blogindex == Unwrap(resources.blogindex)
              blog_archives == archives(blogindex)
              ids == SetToSeq(Query(LAMBDA e :
                        /\ IsSome(e.url) /\ IsSome(e.type_)
                        /\ IsSome(e.metadata) /\ IsSome(e.contents)))
              rendered == [i \in 1..Len(ids) |->
                             Render(world[ids[i]], tera, Unwrap(resources.navbar),
                                    tags_and_counts(blogindex), blog_archives.val,
                                    Unwrap(resources.sitemap))]
          IN /\ resources' = [resources EXCEPT !.tera = Some(tera)]
             /\ Return("dynamic_content_generator",
                  IF ~blog_archives.ok THEN blog_archives
                  ELSE IF config.blogpost_template \notin tera.templates
                       THEN Panic("Couldn't load blogpost template!")
                  ELSE IF ~Collect(rendered).ok THEN Collect(rendered)
                  ELSE Ok([i \in 1..Len(ids) |->
                             InsertComponent(ids[i], "write", Some(rendered[i].val))]))
  /\ UNCHANGED <<main, config, disk, world, applied, dirs, outfiles, copied, written>>

\* ------------------------------------------------------------------------
\* PreparingForPersistenceStage

\* The body of the loop of path_absoluter for one relative output path.
AbsoluteOutputPath(path) ==
  IF is_absolute(path)
  THEN LET stripped == strip_prefix_root(path)
       IN IF stripped.ok THEN Ok(join(config.output_dir, stripped.val)) ELSE stripped
  ELSE Ok(join(config.output_dir, path))

path_absoluter ==
  /\ Ready("path_absoluter")
  /\ LET ids == SetToSeq(Query(LAMBDA e : IsSome(e.rel_out)))
         paths == Collect([i \in 1..Len(ids) |->
                             AbsoluteOutputPath(Unwrap(world[ids[i]].rel_out))])
     IN Return("path_absoluter",
               IF ~paths.ok THEN paths
               ELSE Ok([i \in 1..Len(ids) |->
                          InsertComponent(ids[i], "abs_out", Some(paths.val[i]))]))
  /\ UNCHANGED <<main, config, disk, world, resources, applied, dirs, outfiles, copied, written>>

\* ------------------------------------------------------------------------
\* PersistOutputStage

\* output_folder_creator: the path itself when it is a directory already, its
\* parent otherwise; create_dir_all on each.
output_folder_creator ==
  /\ Ready("output_folder_creator")
  /\ LET ids == Query(LAMBDA e : IsSome(e.abs_out))
         paths == {IF Unwrap(world[id].abs_out) \in dirs
                   THEN Some(Unwrap(world[id].abs_out))
                   ELSE parent(Unwrap(world[id].abs_out)) : id \in ids}
     IN dirs' = dirs \cup UNION {Ancestors(Unwrap(p)) : p \in {q \in paths : IsSome(q)}}
  /\ done' = done \cup {"output_folder_creator"}
  /\ UNCHANGED <<main, config, disk, world, resources, queue, applied, panicked,
                 outfiles, copied, written>>

\* The query of static_file_copier matching no row.
CopyRows_NoRow == {}

CopyRows == Query(LAMBDA e : IsSome(e.source_path) /\ IsSome(e.abs_out) /\ e.copy)

WriteRows == Query(LAMBDA e : IsSome(e.abs_out) /\ IsSome(e.write))

\* One iteration of the par_iter of static_file_copier: fs::copy(from, to).
CopyFile(id) ==
  /\ Ready("static_file_copier")
  /\ id \in CopyRows \ copied
  /\ outfiles' = (Unwrap(world[id].abs_out) :>
                    [op |-> "copy", entity |-> id, data |-> Unwrap(world[id].source_path)])
                 @@ outfiles
  /\ copied' = copied \cup {id}
  /\ UNCHANGED <<main, config, disk, world, resources, queue, done, applied, panicked,
                 dirs, written>>

\* static_file_copier returns when the par_iter has visited every row.
static_file_copier ==
  /\ Ready("static_file_copier")
  /\ CopyRows \subseteq copied
  /\ done' = done \cup {"static_file_copier"}
  /\ UNCHANGED <<main, config, disk, world, resources, queue, applied, panicked,
                 dirs, outfiles, copied, written>>

\* One iteration of the par_iter of file_contents_writer: fs::write(path, contents).
WriteFile(id) ==
  /\ Ready("file_contents_writer")
  /\ id \in WriteRows \ written
  /\ outfiles' = (Unwrap(world[id].abs_out) :>
                    [op |-> "write", entity |-> id, data |-> Unwrap(world[id].write)])
                 @@ outfiles
  /\ written' = written \cup {id}
  /\ UNCHANGED <<main, config, disk, world, resources, queue, done, applied, panicked,
                 dirs, copied>>

file_contents_writer ==
  /\ Ready("file_contents_writer")
  /\ WriteRows \subseteq written
  /\ done' = done \cup {"file_contents_writer"}
  /\ UNCHANGED <<main, config, disk, world, resources, queue, applied, panicked,
                 dirs, outfiles, copied, written>>

\* ------------------------------------------------------------------------
\* App::run: one update of the schedule.

Sets ==
  { "ConfigProcessingStage", "SourceLoadingStage", "AnalyzingDynamicContentStage",
    "IndexingDynamicContentStage", "SpawningDynamicContentStage",
    "GeneratingDynamicContentStage", "PreparingForPersistenceStage",
    "PersistOutputStage" }

Next ==
  \/ create_source_loaders
  \/ static_content_source_loader
  \/ template_source_loader
  \/ dynamic_content_source_loader
  \/ generate_urls
  \/ navbar_indexer
  \/ blogpost_indexer
  \/ sitemap_indexer
  \/ tag_page_generator
  \/ map_urls_to_relative_paths
  \/ dynamic_content_generator
  \/ path_absoluter
  \/ output_folder_creator
  \/ \E id \in 1..Len(world) : CopyFile(id)
  \/ static_file_copier
  \/ \E id \in 1..Len(world) : WriteFile(id)
  \/ file_contents_writer
  \/ \E set \in Sets : ApplyDeferred(set)

\* fn main as it calls run for the first time: args.watch, no event yet.
\* phase: "initial" (the run of line 1154), "watching" (the watcher waits
\* for an event), "rerun" (the run of line 1183), "exited" (the process has
\* ended), "dead" (the watcher's thread has panicked).
Main(watch) ==
  [watch |-> watch, phase |-> "initial", events |-> <<>>, seen |-> 0, failed |-> 0]

\* App::new().insert_resource(config): an empty world.
Start(cfg, files) ==
  /\ config = cfg
  /\ disk = files
  /\ world = <<>>
  /\ resources = [navbar |-> None, blogindex |-> None, sitemap |-> None, tera |-> None]
  /\ queue = [s \in Range(Systems) |-> <<>>]
  /\ done = {}
  /\ applied = {}
  /\ panicked = None
  /\ dirs = {}
  /\ outfiles = <<>>
  /\ copied = {}
  /\ written = {}

\* ------------------------------------------------------------------------
\* Inputs: a configuration and the files its globs find.

\* The deserialized frontmatter of a file.
Metadata(route, title, template, navbar, stuff, exclude) ==
  [route |-> route, title |-> title, template |-> template, navbar |-> navbar,
   markdown |-> FALSE, stuff |-> stuff, og_title |-> <<>>, og_type |-> "",
   og_description |-> <<>>, exclude_from_sitemap |-> exclude]

NavbarConfig(index, group, is_primary) ==
  [index |-> index, group |-> group, is_primary |-> is_primary]

\* A kind of file a family of inputs draws from: the glob that finds it, the
\* first character and the extension of its name, and its frontmatter.
FileKind(glob, prefix, ext, metadata) ==
  [glob |-> glob, prefix |-> prefix, ext |-> ext, metadata |-> metadata]

E_md == <<".", "m", "d">>

E_html == <<".", "h", "t", "m", "l">>

E_css == <<".", "c", "s", "s">>

NoStuff == [k \in {} |-> None]

TemplateFile(name) ==
  [glob |-> "templates/*", path |-> <<"t">>, name |-> name, metadata |-> None,
   contents |-> <<>>]

\* The templates every input has.
Templates == {TemplateFile("post.html"), TemplateFile("page.html")}

\* The files picked from a catalog: the i-th pick is named by its position.
Files(catalog, pick) ==
  {[glob |-> catalog[pick[i]].glob,
    path |-> <<catalog[pick[i]].prefix, Digits[i + 1]>> \o catalog[pick[i]].ext,
    name |-> "",
    metadata |-> catalog[pick[i]].metadata,
    contents |-> <<"b", "o", "d", "y">>] : i \in 1..Len(pick)} \cup Templates

\* The picks of at most k files from a catalog of n kinds, each kind at most once.
Subsets(n, k) ==
  {SetToSeq(S) : S \in {T \in SUBSET (1..n) : Cardinality(T) <= k}}

\* The picks of at most k files from a catalog of n kinds, kinds repeated.
Multisets(n, k) ==
  UNION {{p \in [1..len -> 1..n] : \A i \in 1..(len - 1) : p[i] <= p[i + 1]} :
           len \in 0..k}

Sources ==
  [x \in {"static/*"} |-> "StaticContent"] @@
  [x \in {"templates/*"} |-> "Template"] @@
  [x \in {"pages/*"} |-> "DynamicContentSinglePage"] @@
  [x \in {"posts/*"} |-> "DynamicContentBlogPost"] @@
  [x \in {"tags/*"} |-> "DynamicContentBlogpostTagPage"] @@
  [x \in {"archive/*"} |-> "DynamicContentBlogpostArchivePage"] @@
  [x \in {"rss/*"} |-> "DynamicContentBlogpostRssPage"] @@
  [x \in {"sitemap/*"} |-> "DynamicContentSitemap"]

ConfigWith(routes) ==
  [source_dir |-> <<"/", "s", "r", "c">>,
   output_dir |-> <<"/", "o", "u", "t">>,
   sitename |-> "suji",
   sources |-> Sources,
   routes |-> routes,
   blogpost_template |-> "post.html",
   site_url |-> <<"h", ":", "/", "/", "x">>]

\* ---- the site family: every kind of record, and the three fatal inputs.

SiteRoutes ==
  [home |-> <<"/">>,
   about |-> <<"/", "a", "b", "o", "u", "t">>,
   contact |-> <<"/", "c">>,
   broken |-> <<"/", "x", "/", "{", "n", "o", "}">>,
   post |-> <<"/", "b", "/", "{", "s", "l", "u", "g", "}">>,
   tag |-> <<"/", "t", "/", "{", "t", "a", "g", "}">>,
   rss |-> <<"/", "f", "e", "e", "d", ".", "x", "m", "l">>]

PostStuff(date, tags) ==
  (K_date :> Str(date)) @@ (K_excerpt :> Str(<<"e">>)) @@
  (K_tags :> Arr([i \in 1..Len(tags) |-> Str(tags[i])]))

SiteCatalog ==
  << FileKind("static/*", "s", E_css, None),
     FileKind("pages/*", "h", E_html,
       Some(Metadata("home", "Home", None,
                     Some(NavbarConfig(1, None, FALSE)), NoStuff, FALSE))),
     FileKind("pages/*", "a", E_html,
       Some(Metadata("about", "About", Some("page.html"),
                     Some(NavbarConfig(2, Some(<<"g">>), TRUE)), NoStuff, TRUE))),
     FileKind("pages/*", "c", E_html,
       Some(Metadata("contact", "Contact", Some("page.html"),
                     Some(NavbarConfig(1, Some(<<"g">>), TRUE)), NoStuff, FALSE))),
     FileKind("pages/*", "x", E_html,
       Some(Metadata("broken", "Broken", None, None, NoStuff, FALSE))),
     FileKind("posts/*", "p", E_md,
       Some(Metadata("post", "Post", None, None,
                     PostStuff(<<"2", "0", "2", "0", "/", "0", "1", "/", "0", "2">>,
                               <<<<"a">>, <<"b">>>>), FALSE))),
     FileKind("posts/*", "q", E_md,
       Some(Metadata("post", "Post", Some("page.html"), None,
                     (K_slug :> Int64(7)) @@
                     PostStuff(<<"2", "0", "2", "0", "/", "0", "1", "/", "1", "0">>,
                               <<<<"b">>>>), TRUE))),
     FileKind("posts/*", "n", E_md,
       Some(Metadata("post", "Undated", None, None,
                     (K_excerpt :> Str(<<"e">>)), FALSE))),
     FileKind("tags/*", "t", E_html,
       Some(Metadata("tag", "Tag", Some("page.html"), None, NoStuff, FALSE))),
     FileKind("tags/*", "u", E_html,
       Some(Metadata("tag", "Tag", Some("page.html"), None, NoStuff, TRUE))),
     FileKind("tags/*", "v", E_html,
       Some(Metadata("broken", "Tag", Some("page.html"), None, NoStuff, FALSE))),
     FileKind("tags/*", "w", E_html,
       Some(Metadata("contact", "Tag", Some("page.html"), None, NoStuff, FALSE))),
     FileKind("rss/*", "r", <<".", "x", "m", "l">>,
       Some(Metadata("rss", "Feed", None, None, NoStuff, FALSE))) >>

\* The most files an input of the site family has.
MaxFiles == 3

Init ==
  \E pick \in Subsets(Len(SiteCatalog), MaxFiles) :
    Start(ConfigWith(SiteRoutes), Files(SiteCatalog, pick)) /\ main = Main(FALSE)

Spec == Init /\ [][Next]_vars

\* ------------------------------------------------------------------------
\* Properties of the site family.

\* The stages of a run, in order, each with its systems.
Stages ==
  << {"create_source_loaders"},
     {"static_content_source_loader", "template_source_loader",
      "dynamic_content_source_loader"},
     {"generate_urls"},
     {"navbar_indexer", "blogpost_indexer", "sitemap_indexer"},
     {"tag_page_generator"},
     {"map_urls_to_relative_paths", "dynamic_content_generator"},
     {"path_absoluter"},
     {"output_folder_creator", "static_file_copier", "file_contents_writer"} >>

StageOf(sys) == CHOOSE k \in 1..Len(Stages) : sys \in Stages[k]

\* The systems that have started: those that returned, the one that panicked,
\* and a persistence system as soon as it has handled a record.
Begun ==
  done \cup (IF IsSome(panicked) THEN {Unwrap(panicked).system} ELSE {})
       \cup (IF copied # {} THEN {"static_file_copier"} ELSE {})
       \cup (IF written # {} THEN {"file_contents_writer"} ELSE {})

\* Whether any persistence action has happened.
PersistenceBegun ==
  \/ dirs # {}
  \/ outfiles # <<>>
  \/ copied # {}
  \/ written # {}
  \/ Stages[8] \cap Begun # {}

\* C1: a system has started only if every system of every earlier stage has
\* returned and had its commands applied to the world and the resources; and a
\* file is in the output only if the folder creator has returned and the
\* file's parent directory exists.
C1_StagesInOrder ==
  /\ \A s \in Begun : \A t \in Range(Systems) :
       StageOf(t) < StageOf(s) => t \in done /\ (StageOf(t) < 8 => t \in applied)
  /\ (copied # {} \/ written # {}) => "output_folder_creator" \in done
  /\ \A path \in DOMAIN outfiles : Unwrap(parent(path)) \in dirs

C1_Witness ==
  /\ done = Range(Systems)
  /\ copied # {}
  /\ written # {}

\* The files on disk the dynamic content loader reads, by source type.
FilesOfType(source) ==
  {f \in disk : config.sources[f.glob] = source /\ IsSome(f.metadata)}

PageFiles ==
  UNION {FilesOfType(source) :
           source \in {"DynamicContentSinglePage", "DynamicContentBlogPost",
                       "DynamicContentBlogpostArchivePage",
                       "DynamicContentBlogpostRssPage", "DynamicContentSitemap"}}

\* The keys between braces in a route template.
Placeholders(template) ==
  {SubSeq(template, i + 1, j - 1) :
     <<i, j>> \in {ij \in (1..Len(template)) \X (1..Len(template)) :
                     /\ ij[1] < ij[2]
                     /\ template[ij[1]] = "{"
                     /\ template[ij[2]] = "}"
                     /\ \A k \in (ij[1] + 1)..(ij[2] - 1) : template[k] \notin {"{", "}"}}}

\* The keys of a file's bag that hold a string or an integer, with the keys
\* the program adds to the bag of a post or of a tag page.
BagKeys(f) ==
  LET stuff == Unwrap(f.metadata).stuff
  IN {k \in DOMAIN stuff : stuff[k].t \in {"str", "int"}}
       \cup (IF f \in FilesOfType("DynamicContentBlogPost")
             THEN {K_slug, K_year, K_month, K_day} ELSE {})
       \cup (IF f \in FilesOfType("DynamicContentBlogpostTagPage")
             THEN {K_tag} ELSE {})

MissingDate ==
  \E f \in FilesOfType("DynamicContentBlogPost") :
    K_date \notin DOMAIN Unwrap(f.metadata).stuff

SomePostHasTag ==
  \E f \in FilesOfType("DynamicContentBlogPost") : TagsOf(Unwrap(f.metadata).stuff) # <<>>

UnresolvablePlaceholder ==
  \E f \in PageFiles \cup (IF SomePostHasTag
                           THEN FilesOfType("DynamicContentBlogpostTagPage") ELSE {}) :
    LET route == Unwrap(f.metadata).route
    IN /\ route \in DOMAIN config.routes
       /\ ~(Placeholders(config.routes[route]) \subseteq BagKeys(f))

TwoPrimaries ==
  \E f \in PageFiles : \E g \in PageFiles \ {f} :
    LET a == Unwrap(f.metadata).navbar
        b == Unwrap(g.metadata).navbar
    IN /\ IsSome(a)
       /\ IsSome(b)
       /\ IsSome(Unwrap(a).group)
       /\ Unwrap(a).group = Unwrap(b).group
       /\ Unwrap(a).is_primary
       /\ Unwrap(b).is_primary

C2_WitnessDate ==
  /\ MissingDate
  /\ IsSome(panicked)
  /\ Unwrap(panicked).system = "dynamic_content_source_loader"

C2_WitnessPlaceholder ==
  /\ UnresolvablePlaceholder
  /\ ~MissingDate
  /\ ~TwoPrimaries
  /\ IsSome(panicked)
  /\ Unwrap(panicked).system \in {"generate_urls", "tag_page_generator"}

\* A record whose exclude_from_sitemap flag is true: it has the
\* ExcludeFromSitemap component, or its metadata says so.
Flagged(e) ==
  e.exclude \/ (IsSome(e.metadata) /\ Unwrap(e.metadata).exclude_from_sitemap)

\* C3: the URL of a record whose exclude_from_sitemap flag is true is never an
\* element of the sitemap, at any point of the run.
C3_ExcludedNeverInSitemap ==
  IsSome(resources.sitemap) =>
    \A id \in 1..Len(world) :
      (Flagged(world[id]) /\ IsSome(world[id].url)) =>
        Unwrap(world[id].url).url \notin Range(Unwrap(resources.sitemap))

\* The tag-page records of a world.
TagPageIds(w) ==
  {id \in 1..Len(w) : IsSome(w[id].type_) /\ Unwrap(w[id].type_) = "BlogpostTagPage"}

\* The distinct tags of the post index.
IndexTags ==
  UNION {Range(entry.tags) : entry \in Range(Unwrap(resources.blogindex))}

\* C4: the step that makes the expansions visible adds exactly one record per
\* (template, tag) pair, with the template's metadata and `tag` set to the
\* tag, the template's body and kind and a resolved URL that is in the
\* sitemap, and leaves every other record as it was; the expansion itself
\* changes no record and no other aggregate.
C4_Expansion ==
  [][/\ ("tag_page_generator" \in applied' /\ "tag_page_generator" \notin applied) =>
          LET T == TagPageIds(world)
              G == IndexTags
              new == (Len(world) + 1)..Len(world')
          IN /\ SubSeq(world', 1, Len(world)) = world
             /\ Cardinality(new) = Cardinality(T) * Cardinality(G)
             /\ \A t \in T : \A g \in G :
                  LET made == {n \in new :
                                 /\ world'[n].source_path = world[t].source_path
                                 /\ K_tag \in DOMAIN Unwrap(world'[n].metadata).stuff
                                 /\ Unwrap(world'[n].metadata).stuff[K_tag] = Str(g)}
                  IN /\ Cardinality(made) = 1
                     /\ \A n \in made :
                          /\ world'[n].metadata =
                               Some([Unwrap(world[t].metadata) EXCEPT
                                       !.stuff = (K_tag :> Str(g)) @@ @])
                          /\ world'[n].contents = world[t].contents
                          /\ world'[n].type_ = world[t].type_
                          /\ IsSome(world'[n].url)
                          /\ ~ContainsChar(Unwrap(world'[n].url).url, "{")
                          /\ Unwrap(world'[n].url).url \in Range(Unwrap(resources'.sitemap))
     /\ ("tag_page_generator" \in done' /\ "tag_page_generator" \notin done) =>
          /\ world' = world
          /\ [resources' EXCEPT !.sitemap = None] = [resources EXCEPT !.sitemap = None]
    ]_vars

C4_Witness ==
  /\ "tag_page_generator" \in applied
  /\ Cardinality(TagPageIds(world)) = 6
  /\ Cardinality({id \in TagPageIds(world) : IsSome(world[id].url)}) = 4

\* The sitemap, once tag_page_generator has returned.
SitemapAfterExpansion ==
  IF "tag_page_generator" \in done THEN Unwrap(resources.sitemap) ELSE <<>>

\* C10: from the end of the expansion on, the sitemap is sorted ascending and
\* holds no URL more than once.
C10_SitemapSortedNoDuplicates ==
  \A i \in 1..Len(SitemapAfterExpansion) : \A j \in 1..Len(SitemapAfterExpansion) :
    i < j => StrCmp(SitemapAfterExpansion[i], SitemapAfterExpansion[j]) < 0

\* ------------------------------------------------------------------------
\* The navbar family: pages with every navbar directive, and one asset.

K_id == <<"i", "d">>

NavRoutes == [nav |-> <<"/", "n", "/", "{", "i", "d", "}">>]

G_g == Some(<<"g">>)

G_h == Some(<<"h">>)

\* The navbar directives a page of the family can have: ungrouped entries, a
\* group g with a primary (a page can repeat it) and two children, and a
\* second group h.
NavCatalog ==
  << NavbarConfig(1, None, FALSE), NavbarConfig(2, None, FALSE),
     NavbarConfig(1, None, TRUE),
     NavbarConfig(1, G_g, TRUE),
     NavbarConfig(1, G_g, FALSE), NavbarConfig(2, G_g, FALSE),
     NavbarConfig(2, G_h, TRUE), NavbarConfig(1, G_h, FALSE) >>

NavTitles == <<"A", "B", "C", "D", "E">>

\* The ids of the pages: /n/1 is a prefix of /n/12 as text only, and of
\* /n/1/2 as a path.
NavIds == <<<<"1">>, <<"1", "2">>, <<"1", "/", "2">>, <<"4">>, <<"5">>>>

\* The i-th page of an input has URL /n/<i-th id> and the i-th title.
NavFiles(pick) ==
  {[glob |-> "pages/*",
    path |-> <<"n", Digits[i + 1]>> \o E_html,
    name |-> "",
    metadata |-> Some(Metadata("nav", NavTitles[i], Some("page.html"),
                               Some(NavCatalog[pick[i]]),
                               (K_id :> Str(NavIds[i])), FALSE)),
    contents |-> <<"b", "o", "d", "y">>] : i \in 1..Len(pick)}
    \cup Files(<<FileKind("static/*", "s", E_css, None)>>, <<1>>)

\* The most pages an input of the navbar family has.
MaxNav == 3

InitNav ==
  \E pick \in Multisets(Len(NavCatalog), MaxNav) :
    Start(ConfigWith(NavRoutes), NavFiles(pick)) /\ main = Main(FALSE)

SpecNav == InitNav /\ [][Next]_vars

\* The files of the input that carry a navbar directive.
NavbarFiles == {f \in PageFiles : IsSome(Unwrap(f.metadata).navbar)}

DirectiveOf(f) == Unwrap(Unwrap(f.metadata).navbar)

\* The named groups the input declares.
DeclaredGroups == {DirectiveOf(f).group : f \in NavbarFiles} \ {None}

\* A named group with no primary entry, or with more than one.
BadGroup ==
  \E g \in DeclaredGroups :
    Cardinality({f \in NavbarFiles : DirectiveOf(f).group = g /\ DirectiveOf(f).is_primary}) # 1

\* The records that carry a navbar directive and a URL.
NavRecords ==
  {id \in 1..Len(world) :
     /\ IsSome(world[id].url)
     /\ IsSome(world[id].metadata)
     /\ IsSome(Unwrap(world[id].metadata).navbar)}

NavOf(id) == Unwrap(Unwrap(world[id].metadata).navbar)

UrlOf(id) == Unwrap(world[id].url).url

\* The declared index of the record a node of the forest was made from.
IndexOfNode(node) == NavOf(CHOOSE id \in NavRecords : UrlOf(id) = node.url).index

\* C5: when the Navbar is built, every named group is exactly one top-level
\* node, made from its single primary entry, whose children are exactly the
\* group's other entries in ascending order of index, and the top-level nodes
\* are in ascending order of index; an input with a named group that has no
\* primary or more than one never gets a Navbar and persists nothing.
C5_NavbarGroups ==
  /\ BadGroup => ("navbar_indexer" \notin done /\ ~IsSome(resources.navbar) /\ ~PersistenceBegun)
  /\ IsSome(resources.navbar) =>
       LET forest == Unwrap(resources.navbar)
       IN /\ \A g \in DeclaredGroups :
               LET members == {id \in NavRecords : NavOf(id).group = g}
                   primaries == {id \in members : NavOf(id).is_primary}
                   others == members \ primaries
                   parents == {i \in 1..Len(forest) :
                                 \E id \in primaries : forest[i].url = UrlOf(id)}
               IN /\ Cardinality(primaries) = 1
                  /\ Cardinality(parents) = 1
                  /\ \A id \in others : \A i \in 1..Len(forest) : forest[i].url # UrlOf(id)
                  /\ \A i \in parents :
                       LET children == forest[i].children
                       IN /\ Len(children) = Cardinality(others)
                          /\ {children[k].url : k \in 1..Len(children)} =
                               {UrlOf(id) : id \in others}
                          /\ \A k \in 1..Len(children) : \A l \in 1..Len(children) :
                               k < l => IndexOfNode(children[k]) <= IndexOfNode(children[l])
          /\ \A i \in 1..Len(forest) : \A j \in 1..Len(forest) :
               i < j => IndexOfNode(forest[i]) <= IndexOfNode(forest[j])

\* A group with its parent and two children, next to another top-level node.
C5_Witness ==
  /\ IsSome(resources.navbar)
  /\ \E i \in 1..Len(Unwrap(resources.navbar)) :
       /\ Len(Unwrap(resources.navbar)[i].children) = 2
       /\ IndexOfNode(Unwrap(resources.navbar)[i].children[1]) <
            IndexOfNode(Unwrap(resources.navbar)[i].children[2])

C5_WitnessTopLevel ==
  /\ IsSome(resources.navbar)
  /\ Len(Unwrap(resources.navbar)) = 3
  /\ DeclaredGroups # {}
  /\ IndexOfNode(Unwrap(resources.navbar)[1]) < IndexOfNode(Unwrap(resources.navbar)[3])

C5_WitnessNoPrimary ==
  /\ BadGroup
  /\ IsSome(panicked)
  /\ Unwrap(panicked).msg = "must have at least one primary element for navbar group"


\* ------------------------------------------------------------------------
\* The URL family: pages on every route of a table, or on none, with every bag
\* of a catalog, and one asset.

K_a == <<"a">>

K_b == <<"b">>

UrlRoutes ==
  [root |-> <<"/">>,
   about |-> <<"/", "a", "b", "o", "u", "t">>,
   feed |-> <<"/", "f", "e", "e", "d", ".", "x", "m", "l">>,
   post |-> <<"/", "b", "l", "o", "g", "/", "{", "s", "l", "u", "g", "}">>,
   pair |-> <<"/", "{", "a", "}", "/", "{", "b", "}">>,
   versioned |-> <<"/", "v", "1", ".", "0", "/", "{", "a", "}">>,
   twice |-> <<"/", "{", "a", "}", "{", "a", "}", ".", "h", "t", "m", "l">>]

\* The route names a page of the family can have; "nope" is in no table.
UrlRouteNames == <<"root", "about", "feed", "post", "pair", "versioned", "twice", "nope">>

\* The bags a page of the family can have: keys missing, strings, integers,
\* a boolean, a value with a dot and values that are themselves tokens.
BagCatalog ==
  << NoStuff,
     (K_slug :> Str(<<"m", "y", "-", "p", "o", "s", "t">>)),
     (K_a :> Str(<<"x">>)) @@ (K_b :> Str(<<"y">>)),
     (K_a :> Int64(7)) @@ (K_b :> Str(<<"y", ".", "z">>)),
     (K_a :> Int64(-3)),
     (K_a :> Bool(TRUE)) @@ (K_b :> Str(<<"y">>)),
     (K_a :> Str(<<"{", "b", "}">>)) @@ (K_b :> Str(<<"x">>)),
     (K_a :> Str(<<"{", "s", "l", "u", "g", "}">>)) @@ (K_b :> Str(<<"y">>)) >>

\* The <<route name, bag>> pairs, in a fixed order.
UrlCatalog ==
  [i \in 1..(Len(UrlRouteNames) * Len(BagCatalog)) |->
     <<UrlRouteNames[((i - 1) \div Len(BagCatalog)) + 1],
       BagCatalog[((i - 1) % Len(BagCatalog)) + 1]>>]

UrlFiles(pick) ==
  {[glob |-> "pages/*",
    path |-> <<"u", Digits[i + 1]>> \o E_html,
    name |-> "",
    metadata |-> Some(Metadata(UrlCatalog[pick[i]][1], NavTitles[i], Some("page.html"),
                               None, UrlCatalog[pick[i]][2], FALSE)),
    contents |-> <<"b", "o", "d", "y">>] : i \in 1..Len(pick)}
    \cup Files(<<FileKind("static/*", "s", E_css, None)>>, <<1>>)

\* The most pages an input of the URL family has.
MaxUrlPages == 1

InitUrl ==
  \E pick \in Multisets(Len(UrlCatalog), MaxUrlPages) :
    Start(ConfigWith(UrlRoutes), UrlFiles(pick)) /\ main = Main(FALSE)

SpecUrl == InitUrl /\ [][Next]_vars

\* The records whose URL was resolved from a route and a bag.
ResolvedRecords ==
  {id \in 1..Len(world) :
     ~world[id].is_static /\ IsSome(world[id].metadata) /\ IsSome(world[id].url)}

\* A page of the input whose route name is not in the route table.
UnknownRoute ==
  \E f \in PageFiles : Unwrap(f.metadata).route \notin DOMAIN config.routes

\* C6: a URL resolved from a route and a bag holds no {...} token, and its
\* absolute form is the site base URL followed by the relative URL; a run
\* with a page on a route that is not in the table never gets past the
\* resolution.
C6_UrlResolution ==
  /\ \A id \in ResolvedRecords :
       /\ Placeholders(UrlOf(id)) = {}
       /\ Unwrap(world[id].url).absolute = config.site_url \o UrlOf(id)
       /\ Unwrap(world[id].metadata).route \in DOMAIN config.routes
  /\ UnknownRoute => "generate_urls" \notin done

\* A route with two placeholders resolved, one of them from an integer.
C6_Witness ==
  \E id \in ResolvedRecords :
    /\ Unwrap(world[id].metadata).route = "pair"
    /\ UrlOf(id) = <<"/", "7", "/", "y", ".", "z">>

C6_WitnessUnknown ==
  /\ UnknownRoute
  /\ IsSome(panicked)
  /\ Unwrap(panicked).msg = "No route defined"

C6_WitnessUnresolved ==
  /\ ~UnknownRoute
  /\ IsSome(panicked)
  /\ Unwrap(panicked).msg = "URL should be fully generated"

\* The last non-empty piece of a URL between separators.
LastSegment(url) ==
  LET pieces == SelectSeq(StrSplit(url, "/"), LAMBDA piece : piece # <<>>)
  IN IF pieces = <<>> THEN <<>> ELSE pieces[Len(pieces)]

\* The segment has a dot after its first character.
HasFileExtension(url) ==
  \E i \in 2..Len(LastSegment(url)) : LastSegment(url)[i] = "."

ExpectedRelative(url) ==
  IF HasFileExtension(url) THEN url
  ELSE url \o <<"/", "i", "n", "d", "e", "x", ".", "h", "t", "m", "l">>

RECURSIVE WithoutLeadingSeparator(_)
WithoutLeadingSeparator(path) ==
  IF path # <<>> /\ path[1] = "/" THEN WithoutLeadingSeparator(SubSeq(path, 2, Len(path)))
  ELSE path

ExpectedAbsolute(relative) ==
  config.output_dir \o <<"/">> \o WithoutLeadingSeparator(relative)

\* C9: the relative output path of a record with a resolved URL is the URL
\* when its last segment has a file extension and the URL followed by
\* /index.html when it has none (as paths: compared by components), and its
\* absolute output path is the output root, a separator, and the relative path
\* without its leading separator; every such record gets both paths.
C9_OutputPaths ==
  \A id \in ResolvedRecords :
    /\ "map_urls_to_relative_paths" \in applied => IsSome(world[id].rel_out)
    /\ IsSome(world[id].rel_out) =>
         PathEq(Unwrap(world[id].rel_out), ExpectedRelative(UrlOf(id)))
    /\ "path_absoluter" \in applied => IsSome(world[id].abs_out)
    /\ IsSome(world[id].abs_out) =>
         Unwrap(world[id].abs_out) = ExpectedAbsolute(Unwrap(world[id].rel_out))

C9_Witness ==
  \E id \in ResolvedRecords :
    /\ UrlOf(id) = <<"/", "b", "l", "o", "g", "/", "m", "y", "-", "p", "o", "s", "t">>
    /\ world[id].rel_out = Some(UrlOf(id) \o <<"/", "i", "n", "d", "e", "x", ".", "h", "t", "m", "l">>)
    /\ world[id].abs_out = Some(config.output_dir \o UrlOf(id)
                                  \o <<"/", "i", "n", "d", "e", "x", ".", "h", "t", "m", "l">>)

C9_WitnessExtension ==
  \E id \in ResolvedRecords :
    /\ UrlOf(id) = <<"/", "f", "e", "e", "d", ".", "x", "m", "l">>
    /\ world[id].rel_out = Some(UrlOf(id))
    /\ world[id].abs_out = Some(config.output_dir \o UrlOf(id))

C9_WitnessDottedDirectory ==
  \E id \in ResolvedRecords :
    /\ UrlOf(id) = <<"/", "v", "1", ".", "0", "/", "x">>
    /\ IsSome(world[id].abs_out)

\* ------------------------------------------------------------------------
\* The post family: posts with every shape of date and of tag list, and one
\* asset.

D_20200102 == <<"2", "0", "2", "0", "/", "0", "1", "/", "0", "2">>

D_20200110 == <<"2", "0", "2", "0", "/", "0", "1", "/", "1", "0">>

D_2020019 == <<"2", "0", "2", "0", "/", "0", "1", "/", "9">>

D_20191231 == <<"2", "0", "1", "9", "/", "1", "2", "/", "3", "1">>

D_2020305 == <<"2", "0", "2", "0", "/", "3", "/", "0", "5">>

D_20210203 == <<"2", "0", "2", "1", "/", "0", "2", "/", "0", "3">>

D_dashes == <<"2", "0", "2", "0", "-", "0", "1", "-", "0", "2">>

D_9990102 == <<"9", "9", "9", "/", "0", "1", "/", "0", "2">>

\* The <<date, tags>> a post of the family can have: padded dates, a day and a
\* month of one digit, two posts of one day, a date the loader rejects, a year
\* of three digits.
PostCatalog ==
  << <<D_20200102, <<<<"a">>, <<"b">>>>>>,
     <<D_20200110, <<<<"a">>, <<"b">>, <<"c">>>>>>,
     <<D_2020019, <<<<"b">>>>>>,
     <<D_20191231, <<>>>>,
     <<D_2020305, <<<<"c">>, <<"c">>>>>>,
     <<D_20200102, <<<<"a">>>>>>,
     <<D_20210203, <<<<"b">>, <<"a">>>>>>,
     <<D_dashes, <<>>>>,
     <<D_9990102, <<>>>> >>

\* The i-th post of an input is posts/p<i>.md.
PostFiles(pick) ==
  {[glob |-> "posts/*",
    path |-> <<"p", Digits[i + 1]>> \o E_md,
    name |-> "",
    metadata |-> Some(Metadata("post", NavTitles[i], None, None,
                               PostStuff(PostCatalog[pick[i]][1], PostCatalog[pick[i]][2]),
                               FALSE)),
    contents |-> <<"b", "o", "d", "y">>] : i \in 1..Len(pick)}
    \cup Files(<<FileKind("static/*", "s", E_css, None)>>, <<1>>)

\* The most posts an input of the post family has.
MaxPosts == 2

InitIndex ==
  \E pick \in Multisets(Len(PostCatalog), MaxPosts) :
    Start(ConfigWith(SiteRoutes), PostFiles(pick)) /\ main = Main(FALSE)

SpecIndex == InitIndex /\ [][Next]_vars

\* The number a field of a date stands for: its digits, read in base ten.
RECURSIVE FieldNumber(_)
FieldNumber(field) ==
  IF field = <<>> THEN 0
  ELSE LET last == field[Len(field)]
           front == FieldNumber(SubSeq(field, 1, Len(field) - 1))
       IN IF \E d \in 1..10 : Digits[d] = last
          THEN 10 * front + (CHOOSE d \in 1..10 : Digits[d] = last) - 1
          ELSE front

\* The entry's date is chronologically earlier than the other's.
Earlier(x, y) ==
  LET a == <<FieldNumber(x.year), FieldNumber(x.month), FieldNumber(x.day)>>
      b == <<FieldNumber(y.year), FieldNumber(y.month), FieldNumber(y.day)>>
  IN \/ a[1] < b[1]
     \/ a[1] = b[1] /\ a[2] < b[2]
     \/ a[1] = b[1] /\ a[2] = b[2] /\ a[3] < b[3]

\* The post index, once built.
PostIndex == IF IsSome(resources.blogindex) THEN Unwrap(resources.blogindex) ELSE <<>>

\* C7: the post index is in descending order of (year, month, day) read as
\* integers: no entry is chronologically earlier than an entry after it.
C7_IndexNewestFirst ==
  \A i \in 1..Len(PostIndex) : \A j \in 1..Len(PostIndex) :
    i < j => ~Earlier(PostIndex[i], PostIndex[j])

\* The number of times a tag occurs in the tag lists of the index.
TagOccurrences(tag) ==
  Cardinality({ik \in (1..Len(PostIndex)) \X (1..3) :
                 /\ ik[2] <= Len(PostIndex[ik[1]].tags)
                 /\ PostIndex[ik[1]].tags[ik[2]] = tag})

\* The tag-count views the generator has put into a rendering context.
RenderedTagCounts ==
  {Unwrap(world[id].write).context.blog_tags_and_counts :
     id \in {i \in 1..Len(world) : IsSome(world[i].write)}}

\* C8: a tag-count view holds each distinct tag of the index exactly once,
\* with the number of its occurrences, in descending order of count and, for
\* equal counts, in descending order of tag name.
C8_TagCounts ==
  \A view \in RenderedTagCounts :
    /\ {view[k][1] : k \in 1..Len(view)} =
         UNION {Range(PostIndex[i].tags) : i \in 1..Len(PostIndex)}
    /\ \A k \in 1..Len(view) : \A l \in 1..Len(view) : k # l => view[k][1] # view[l][1]
    /\ \A k \in 1..Len(view) : view[k][2] = TagOccurrences(view[k][1])
    /\ \A k \in 1..Len(view) : \A l \in 1..Len(view) :
         k < l => \/ view[k][2] > view[l][2]
                  \/ view[k][2] = view[l][2] /\ StrCmp(view[k][1], view[l][1]) > 0

\* Tags a:2, b:2, c:1.
C8_Witness ==
  <<<<<<"b">>, 2>>, <<<<"a">>, 2>>, <<<<"c">>, 1>>>> \in RenderedTagCounts

\* ------------------------------------------------------------------------
\* Termination. The executor starts every system that is ready, runs the
\* sync point of a set once its systems have returned, and a par_iter
\* visits every row: a step that can be taken is taken.

\* The sync point of a set is due.
SyncPending(set) ==
  /\ ~IsSome(panicked)
  /\ SystemsIn(set) # {}
  /\ SystemsIn(set) \subseteq done \cap HasCommands
  /\ ~(SystemsIn(set) \subseteq applied)

\* The executor has something to run: the enabling condition of Next.
Runnable ==
  \/ \E sys \in Range(Systems) : Ready(sys)
  \/ \E set \in Sets : SyncPending(set)

\* Weak fairness of Next, WF_vars(Next), with its enabling condition
\* written out.
Fairness == []<>(~Runnable) \/ []<><<Next>>_vars

FairSpec == Init /\ [][Next]_vars /\ Fairness

Terminated == IsSome(panicked) \/ done = Range(Systems)

\* The records that have a URL.
UrlRecords == {id \in 1..Len(world) : IsSome(world[id].url)}

\* The record is in the output, as a copy if it is an asset and as a write
\* if it is not.
Persisted(id) ==
  /\ IsSome(world[id].abs_out)
  /\ Unwrap(world[id].abs_out) \in DOMAIN outfiles
  /\ IF world[id].is_static
     THEN id \in copied /\ id \notin written
     ELSE id \in written /\ id \notin copied

\* A step persists at most one record, one not persisted before: it puts the
\* record's source path (a copy) or its rendered text (a write) at the
\* record's absolute output path; and no step removes a record.
PersistsOnce ==
  LET new == (copied' \ copied) \cup (written' \ written)
  IN /\ copied \subseteq copied'
     /\ written \subseteq written'
     /\ Cardinality(new) <= 1
     /\ outfiles' # outfiles => Cardinality(new) = 1
     /\ \A id \in copied' \ copied :
          /\ world[id].is_static
          /\ outfiles'[Unwrap(world[id].abs_out)] =
               [op |-> "copy", entity |-> id, data |-> Unwrap(world[id].source_path)]
     /\ \A id \in written' \ written :
          /\ ~world[id].is_static
          /\ outfiles'[Unwrap(world[id].abs_out)] =
               [op |-> "write", entity |-> id, data |-> Unwrap(world[id].write)]
     /\ Len(world') >= Len(world)

\* C11: a run ends, by a panic or with every system returned; when every
\* system has returned every record that has a URL is in the output, an asset
\* by one copy of its source and any other record by one write of its
\* rendered text; no record is ever removed.
C11_TerminatesAllPersisted ==
  /\ <>Terminated
  /\ [](Terminated \/ Runnable)
  /\ [](done = Range(Systems) => \A id \in UrlRecords : Persisted(id))
  /\ [][PersistsOnce]_vars

C11_Witness ==
  /\ done = Range(Systems)
  /\ Cardinality(copied) = 1
  /\ Cardinality(written) = 2
  /\ \A id \in UrlRecords : Persisted(id)

\* ------------------------------------------------------------------------
\* fn main: the initial run, then the watcher.

\* Path::starts_with(base): by components.
path_starts_with(path, base) ==
  LET pc == Components(path)
      bc == Components(base)
  IN Len(bc) <= Len(pc) /\ SubSeq(pc, 1, Len(bc)) = bc

\* The configuration of the watch family: the output directory lies in the
\* watched source directory.
WatchConfig ==
  [ConfigWith(SiteRoutes) EXCEPT !.output_dir = <<"/", "s", "r", "c", "/", "o">>]

\* args.config_path, canonicalized.
config_path == WatchConfig.source_dir \o <<"/", "c", ".", "j">>

\* The paths an event of the watcher can name: a source file, the
\* configuration file, a file of the output directory.
EventPaths ==
  { WatchConfig.source_dir \o <<"/", "h", "1">>,
    config_path,
    WatchConfig.output_dir \o <<"/", "i">> }

\* event.kind: is_create(), is_modify(), or any other kind.
EventKinds == {"create", "modify", "remove"}

\* The source files of the watch family: a site that builds, and one whose
\* page names a route whose placeholder nothing fills.
WatchDisks == {Files(SiteCatalog, <<1, 2>>), Files(SiteCatalog, <<2, 5>>)}

\* The most events the file system raises.
MaxEvents == 2

InitWatch ==
  \E files \in WatchDisks : \E watch \in BOOLEAN :
    Start(WatchConfig, files) /\ main = Main(watch)

\* run() has returned, or a system of it has panicked.
RunEnded == IsSome(panicked) \/ done = Range(Systems)

\* The file system changes under the source directory. The watcher, once
\* set up, queues the event; before that, and after the process or the
\* watcher's thread has ended, nothing receives it.
FsEvent ==
  /\ main.seen < MaxEvents
  /\ \E kind \in EventKinds : \E path \in EventPaths : \E files \in WatchDisks :
       /\ path_starts_with(path, config.output_dir) \/ path = config_path => files = disk
       /\ disk' = files
       /\ main' = [main EXCEPT
             !.seen = @ + 1,
             !.events = IF main.watch /\ main.phase \in {"watching", "rerun"}
                        THEN Append(@, [kind |-> kind, path |-> path])
                        ELSE @]
  /\ UNCHANGED <<config, world, resources, queue, done, applied, panicked,
                 dirs, outfiles, copied, written>>

\* run(config.clone()) of line 1154 panics: the panic unwinds main and the
\* process ends; the watcher is never created.
InitialRunPanics ==
  /\ main.phase = "initial"
  /\ IsSome(panicked)
  /\ main' = [main EXCEPT !.phase = "exited", !.failed = @ + 1]
  /\ UNCHANGED <<config, disk, world, resources, queue, done, applied, panicked,
                 dirs, outfiles, copied, written>>

\* run(config.clone()) of line 1154 returns: with --watch the watcher is
\* set up and runs, without it main returns.
InitialRunReturns ==
  /\ main.phase = "initial"
  /\ done = Range(Systems)
  /\ main' = [main EXCEPT !.phase = IF main.watch THEN "watching" ELSE "exited"]
  /\ UNCHANGED <<config, disk, world, resources, queue, done, applied, panicked,
                 dirs, outfiles, copied, written>>

\* A new App: no entity, no resource, no system has run. The output
\* directory keeps what earlier runs left in it.
FreshRun ==
  /\ world' = <<>>
  /\ resources' = [navbar |-> None, blogindex |-> None, sitemap |-> None, tera |-> None]
  /\ queue' = [s \in Range(Systems) |-> <<>>]
  /\ done' = {}
  /\ applied' = {}
  /\ panicked' = None
  /\ copied' = {}
  /\ written' = {}
  /\ UNCHANGED <<dirs, outfiles>>

\* The closure given to watcher.watch, for the oldest event of the queue.
\* get_config_from_path reads the file again: it gives the configuration or
\* panics, outside catch_unwind, which ends the watcher's thread.
HandleEvent ==
  /\ main.phase = "watching"
  /\ main.events # <<>>
  /\ LET event == Head(main.events)
         should_reload == event.path = config_path
         should_rerun == ~path_starts_with(event.path, config.output_dir)
     IN IF event.kind \notin {"modify", "create"}
        THEN /\ main' = [main EXCEPT !.events = Tail(@)]
             /\ UNCHANGED <<world, resources, queue, done, applied, panicked,
                            dirs, outfiles, copied, written>>
        ELSE \E readable \in (IF should_reload THEN BOOLEAN ELSE {TRUE}) :
               IF ~readable
               THEN /\ main' = [main EXCEPT !.events = Tail(@), !.phase = "dead"]
                    /\ UNCHANGED <<world, resources, queue, done, applied, panicked,
                                   dirs, outfiles, copied, written>>
               ELSE IF should_reload \/ should_rerun
                    THEN /\ main' = [main EXCEPT !.events = Tail(@), !.phase = "rerun"]
                         /\ FreshRun
                    ELSE /\ main' = [main EXCEPT !.events = Tail(@)]
                         /\ UNCHANGED <<world, resources, queue, done, applied, panicked,
                                        dirs, outfiles, copied, written>>
  /\ UNCHANGED <<config, disk>>

\* catch_unwind(|| run(config.clone())) is over: Ok, or Err that is logged;
\* the closure returns Flow::Continue.
RerunEnds ==
  /\ main.phase = "rerun"
  /\ RunEnded
  /\ main' = [main EXCEPT !.phase = "watching",
                          !.failed = IF IsSome(panicked) THEN @ + 1 ELSE @]
  /\ UNCHANGED <<config, disk, world, resources, queue, done, applied, panicked,
                 dirs, outfiles, copied, written>>

NextWatch ==
  \/ Next
  \/ FsEvent
  \/ InitialRunPanics
  \/ InitialRunReturns
  \/ HandleEvent
  \/ RerunEnds

SpecWatch == InitWatch /\ [][NextWatch]_vars

\* ------------------------------------------------------------------------
\* Properties of the watch family.

\* The oldest event of the queue reports a created or modified source path.
SourceEventPending ==
  /\ main.events # <<>>
  /\ Head(main.events).kind \in {"create", "modify"}
  /\ ~path_starts_with(Head(main.events).path, config.output_dir)
  /\ Head(main.events).path # config_path

\* C12: with --watch, once a run has failed the watcher is still there,
\* waiting for an event or running the pipeline again; and when it takes
\* a created or modified source path from its queue, a new run starts with
\* no record and no aggregate.
C12_FailedRunKeepsWatcher ==
  /\ [](main.watch /\ main.failed > 0 => main.phase \in {"watching", "rerun"})
  /\ [][main.watch /\ main.failed > 0 /\ SourceEventPending
        /\ main.events' = Tail(main.events)
        => /\ main'.phase = "rerun"
           /\ world' = <<>>
           /\ resources' = [navbar |-> None, blogindex |-> None,
                            sitemap |-> None, tera |-> None]
           /\ done' = {} /\ applied' = {} /\ panicked' = None]_vars

\* ------------------------------------------------------------------------
\* Blog post records.

BlogPosts == {id \in 1..Len(world) : world[id].type_ = Some("Blogpost")}

\* The panics of the unchecked reads of blogpost_indexer and of the
\* assertion of dynamic_content_generator.
UncheckedReadPanics ==
  { [system |-> "blogpost_indexer", msg |-> "called unwrap on a None value"],
    [system |-> "dynamic_content_generator",
     msg |-> "assertion failed: template_name == config.blogpost_template"] }

\* C13: every BlogPost record of the world has date, year, month, day and
\* slug in its bag, each a string, has its markdown flag on and names the
\* configured blog-post template; and no run panics in the reads of those keys
\* by the indexer or in the renderer's assertion on the template.
C13_BlogPostNormalised ==
  /\ \A id \in BlogPosts :
       LET metadata == Unwrap(world[id].metadata)
       IN /\ \A key \in {K_date, K_year, K_month, K_day, K_slug} :
               key \in DOMAIN metadata.stuff /\ metadata.stuff[key].t = "str"
          /\ metadata.markdown
          /\ metadata.template = Some(config.blogpost_template)
  /\ IsSome(panicked) => Unwrap(panicked) \notin UncheckedReadPanics

\* The only post of the input names another template and gives a number as
\* its slug; it has been indexed and rendered.
C13_Witness ==
  /\ \E f \in disk : f.glob = "posts/*"
  /\ \A f \in disk : f.glob = "posts/*" =>
       /\ IsSome(f.metadata)
       /\ Unwrap(f.metadata).template = Some("page.html")
       /\ K_slug \in DOMAIN Unwrap(f.metadata).stuff
       /\ Unwrap(f.metadata).stuff[K_slug].t = "int"
  /\ \E id \in BlogPosts : IsSome(world[id].write)
  /\ Len(Unwrap(resources.blogindex)) = 1

\* ------------------------------------------------------------------------
\* URL resolution and the order of the bag.

\* The keys of a bag whose token {key} occurs in url and whose value is a
\* string or an integer.
MatchingKeys(url, bag) ==
  {key \in DOMAIN bag :
     /\ bag[key].t \in {"str", "int"}
     /\ StrReplace(url, <<"{">> \o key \o <<"}">>, <<>>) # url}

\* Substitution repeated until no token is left or no key of the bag matches
\* one, at most `rounds` times.
RECURSIVE Substituted(_, _, _)
Substituted(url, bag, rounds) ==
  IF rounds = 0 \/ ~ContainsChar(url, "{") \/ MatchingKeys(url, bag) = {}
  THEN url
  ELSE LET key == CHOOSE k \in MatchingKeys(url, bag) : TRUE
       IN Substituted(ReplaceKey(url, key, bag[key]), bag, rounds - 1)

\* What repeated substitution makes of the route of a page or a record.
Resolution(metadata) ==
  Substituted(config.routes[metadata.route], metadata.stuff,
              2 * Cardinality(DOMAIN metadata.stuff))

\* C14: resolution is substitution repeated until no token is left or no key
\* matches, whatever the order of the bag: a resolved URL is what repeated
\* substitution gives, and resolution fails only when repeated substitution
\* leaves a token in the route of some page.
C14_ResolutionOrderIrrelevant ==
  /\ \A id \in ResolvedRecords :
       UrlOf(id) = Resolution(Unwrap(world[id].metadata))
  /\ (\A f \in PageFiles :
        /\ Unwrap(f.metadata).route \in DOMAIN config.routes
        /\ ~ContainsChar(Resolution(Unwrap(f.metadata)), "{"))
     => ~(IsSome(panicked) /\ Unwrap(panicked).system = "generate_urls")

\* ------------------------------------------------------------------------
\* The navigation forest and the records it is built from.

\* The top-level positions of the forest that hold a URL.
TopLevelAt(forest, url) == {i \in 1..Len(forest) : forest[i].url = url}

\* The <<parent, child>> positions of the forest that hold a URL.
ChildAt(forest, url) ==
  {ik \in UNION {{<<i, k>> : k \in 1..Len(forest[i].children)} : i \in 1..Len(forest)} :
     forest[ik[1]].children[ik[2]].url = url}

\* C15: when the Navbar is built, every record with a URL and a navbar
\* directive is in the forest exactly once: at the top level when it has no
\* group or is the primary entry of its group, and otherwise as a child of
\* the node of its group's primary entry.
C15_EveryEntryOnce ==
  IsSome(resources.navbar) =>
    LET forest == Unwrap(resources.navbar)
    IN \A id \in NavRecords :
         IF NavOf(id).group = None \/ NavOf(id).is_primary
         THEN /\ Cardinality(TopLevelAt(forest, UrlOf(id))) = 1
              /\ ChildAt(forest, UrlOf(id)) = {}
         ELSE /\ TopLevelAt(forest, UrlOf(id)) = {}
              /\ Cardinality(ChildAt(forest, UrlOf(id))) = 1
              /\ \A ik \in ChildAt(forest, UrlOf(id)) :
                   \E head \in NavRecords :
                     /\ NavOf(head).group = NavOf(id).group
                     /\ NavOf(head).is_primary
                     /\ forest[ik[1]].url = UrlOf(head)

\* ------------------------------------------------------------------------
\* The navigation tree as a page sees it.

\* prefix is a prefix of url that ends where a segment of url ends.
SegmentPrefix(prefix, url) ==
  /\ StartsWith(url, prefix)
  /\ \/ Len(url) = Len(prefix)
     \/ prefix[Len(prefix)] = "/"
     \/ url[Len(prefix) + 1] = "/"

\* What the claim takes an entry's active flag to be for a current URL.
ActiveFor(entry, current) ==
  entry.url = current \/ (entry.url # <<"/">> /\ SegmentPrefix(entry.url, current))

\* The records the generator has rendered.
Rendered == {id \in 1..Len(world) : IsSome(world[id].write)}

\* The navigation tree in the rendering context of a record.
NavbarView(id) == Unwrap(world[id].write).context.navbar

\* The entries of a tree, parents and children.
Nodes(forest) ==
  Range(forest) \cup UNION {Range(forest[i].children) : i \in 1..Len(forest)}

\* C16: in the tree a page is rendered with, an entry is active exactly when
\* its URL is the page's URL, or is not / and is a prefix of the page's URL on
\* a segment boundary; that tree is the stored tree but for the flags, and in
\* the stored tree every entry stays inactive.
C16_ActiveEntries ==
  /\ \A id \in Rendered :
       /\ \A node \in Nodes(NavbarView(id)) :
            node.active <=> ActiveFor(node, UrlOf(id))
       /\ IsSome(resources.navbar)
       /\ Len(NavbarView(id)) = Len(Unwrap(resources.navbar))
       /\ \A i \in 1..Len(NavbarView(id)) :
            /\ NavbarView(id)[i].url = Unwrap(resources.navbar)[i].url
            /\ NavbarView(id)[i].title = Unwrap(resources.navbar)[i].title
            /\ [k \in 1..Len(NavbarView(id)[i].children) |->
                  [NavbarView(id)[i].children[k] EXCEPT !.active = FALSE]]
               = Unwrap(resources.navbar)[i].children
  /\ IsSome(resources.navbar) =>
       \A node \in Nodes(Unwrap(resources.navbar)) : ~node.active

\* ------------------------------------------------------------------------
\* The date of a blog post.

\* A field padded on the left with zeros to a width.
RECURSIVE ZeroPadded(_, _)
ZeroPadded(field, width) ==
  IF Len(field) >= width THEN field ELSE ZeroPadded(<<"0">> \o field, width)

\* The bag of a post file has no date, a date that is not a string, or a
\* date that does not have three parts.
BadDate(stuff) ==
  \/ K_date \notin DOMAIN stuff
  \/ stuff[K_date].t # "str"
  \/ Len(StrSplit(stuff[K_date].v, "/")) # 3

\* C17: a blog post record carries the three parts of its date as year,
\* month and day, padded with zeros to 4, 2 and 2 digits; an input with a
\* post whose date is missing, not a string or not of three parts never gets
\* past the load.
C17_DatePartsZeroPadded ==
  /\ \A id \in BlogPosts :
       LET stuff == Unwrap(world[id].metadata).stuff
           parts == StrSplit(stuff[K_date].v, "/")
       IN /\ ~BadDate(stuff)
          /\ stuff[K_year] = Str(ZeroPadded(parts[1], 4))
          /\ stuff[K_month] = Str(ZeroPadded(parts[2], 2))
          /\ stuff[K_day] = Str(ZeroPadded(parts[3], 2))
  /\ (\E f \in FilesOfType("DynamicContentBlogPost") : BadDate(Unwrap(f.metadata).stuff))
     => "dynamic_content_source_loader" \notin done

\* ------------------------------------------------------------------------
\* The archives view.

\* The archives views the generator has put into a rendering context.
RenderedArchives == {Unwrap(world[id].write).context.blog_archives : id \in Rendered}

\* The generator has panicked in archives().
ArchivesFailed ==
  IsSome(panicked) /\ Unwrap(panicked) =
    [system |-> "dynamic_content_generator", msg |-> "Invalid month"]

\* The generator has called archives(): it has returned or panicked.
ArchivesComputed ==
  \/ "dynamic_content_generator" \in done
  \/ IsSome(panicked) /\ Unwrap(panicked).system = "dynamic_content_generator"

\* The month codes 01..12.
MonthCodes == {ZeroPadded(NatToString(m), 2) : m \in 1..12}

\* The (year, month) of an entry is later than the other's.
LaterMonth(x, y) ==
  \/ FieldNumber(x.year) > FieldNumber(y.year)
  \/ FieldNumber(x.year) = FieldNumber(y.year) /\ FieldNumber(x.month) > FieldNumber(y.month)

\* C18: an archives view holds every entry of the post index in exactly one
\* group, a group holds the entries of one (year, month) in the order of the
\* index and carries the year and the name of the month, and a group comes
\* before every group of an earlier (year, month); archives() fails exactly
\* when an entry of the index has a month code that is not one of 01..12.
C18_Archives ==
  /\ \A view \in RenderedArchives :
       /\ \A i \in 1..Len(PostIndex) :
            Cardinality({gk \in UNION {{<<g, k>> : k \in 1..Len(view[g][3])} :
                                         g \in 1..Len(view)} :
                           view[gk[1]][3][gk[2]] = PostIndex[i]}) = 1
       /\ \A g \in 1..Len(view) :
            /\ view[g][3] # <<>>
            /\ view[g][3] = SelectSeq(PostIndex, LAMBDA e :
                              e.year = view[g][3][1].year /\ e.month = view[g][3][1].month)
            /\ view[g][1] = view[g][3][1].year
            /\ view[g][2] = month_names[view[g][3][1].month]
       /\ \A g \in 1..Len(view) : \A h \in 1..Len(view) :
            g < h => LaterMonth(view[g][3][1], view[h][3][1])
  /\ ArchivesComputed =>
       (ArchivesFailed <=> \E i \in 1..Len(PostIndex) : PostIndex[i].month \notin MonthCodes)

\* ------------------------------------------------------------------------
\* Tag page templates.

\* The tag-page records the loader made from the files of the tag-page glob:
\* the expansions are made with a URL, the templates without.
TagPageTemplates == {id \in TagPageIds(world) : ~IsSome(world[id].url)}

\* The tag-page records made by expansion.
TagPageExpansions == {id \in TagPageIds(world) : IsSome(world[id].url)}

\* C19: a tag page template never gets a URL, an output path or rendered
\* contents, and is never copied or written; the tag-page records that are
\* written are expansions; and no record's kind ever changes.
C19_TemplateNeverRendered ==
  /\ [](\A id \in TagPageTemplates :
          /\ ~IsSome(world[id].rel_out) /\ ~IsSome(world[id].abs_out)
          /\ ~IsSome(world[id].write)
          /\ id \notin copied \cup written)
  /\ [][\A id \in 1..Len(world) :
          /\ id \in TagPageTemplates => id \in 1..Len(world') /\ ~IsSome(world'[id].url)
          /\ IsSome(world[id].type_) => world'[id].type_ = world[id].type_
          /\ world'[id].is_static = world[id].is_static
          /\ IsSome(world[id].loader) = IsSome(world'[id].loader)]_vars

\* A template on a route without a placeholder and a post with two tags: the
\* run is over, the template has no URL and its two expansions are written.
C19_Witness ==
  /\ done = Range(Systems)
  /\ \E id \in TagPageTemplates :
       Unwrap(world[id].metadata).route = "contact"
  /\ Cardinality(TagPageExpansions \cap written) = 2

\* ------------------------------------------------------------------------
\* The shared aggregates.

\* The step is the sync point of a stage.
SyncPointOf(set) ==
  /\ applied' # applied
  /\ applied' \ applied \subseteq SystemsIn(set)
  /\ done' = done

\* The step is the run of tag_page_generator, to its return or its panic.
ExpansionStep ==
  \/ "tag_page_generator" \in done' \ done
  \/ ~IsSome(panicked) /\ IsSome(panicked')
       /\ Unwrap(panicked').system = "tag_page_generator"

\* C20: the Navbar, the BlogpostIndex and the template catalog are each
\* written once, at the sync point of the stage of the system that builds
\* them, and never change afterwards; the Sitemap is written at the sync
\* point of the indexing stage and changed by tag_page_generator only, and
\* does not change once tag_page_generator has returned.
C20_AggregatesWrittenOnce ==
  [][/\ resources'.navbar # resources.navbar =>
          ~IsSome(resources.navbar) /\ SyncPointOf("IndexingDynamicContentStage")
     /\ resources'.blogindex # resources.blogindex =>
          ~IsSome(resources.blogindex) /\ SyncPointOf("IndexingDynamicContentStage")
     /\ resources'.tera # resources.tera =>
          ~IsSome(resources.tera) /\ SyncPointOf("SourceLoadingStage")
     /\ resources'.sitemap # resources.sitemap =>
          \/ ~IsSome(resources.sitemap) /\ SyncPointOf("IndexingDynamicContentStage")
          \/ IsSome(resources.sitemap) /\ ExpansionStep]_vars

\* ------------------------------------------------------------------------
\* The output paths of the persistence stage.

\* The rows of the two writers: the records the persistence stage puts into
\* the output tree.
PersistedRows == CopyRows \cup WriteRows

\* What the writer of a row puts at the row's path.
OutputOf(id) ==
  IF id \in CopyRows
  THEN [op |-> "copy", entity |-> id, data |-> Unwrap(world[id].source_path)]
  ELSE [op |-> "write", entity |-> id, data |-> Unwrap(world[id].write)]

\* C21: no two records that the persistence stage writes have the same
\* absolute output path; so, when both writers have returned, the file at the
\* path of every record holds what that record's writer put there, whatever
\* the order of the copies and the writes.
C21_OutputPathsDistinct ==
  /\ \A id \in PersistedRows : \A other \in PersistedRows :
       id # other =>
         ~PathEq(Unwrap(world[id].abs_out), Unwrap(world[other].abs_out))
  /\ {"static_file_copier", "file_contents_writer"} \subseteq done =>
       \A id \in PersistedRows :
         /\ Unwrap(world[id].abs_out) \in DOMAIN outfiles
         /\ outfiles[Unwrap(world[id].abs_out)].data = OutputOf(id).data

====
